---- MODULE Spec2Model ----
(***************************************************************************)
(* The DIRT applier of SpyGame (utils_dirt.py): the process-local model    *)
(* cache, the model file it is loaded from, the equivalence index and the  *)
(* verb-substitution loop of aplicar_DIRT; the builder (dirt_builder.py):  *)
(* triple extraction, the scorer, guardar_modelo and main; and the game    *)
(* routes of app.py with the cookie and the stored session.                *)
(*                                                                         *)
(* Strings are sequences of one-character strings, so that str.replace is  *)
(* modelled on characters.  Scores, min_score, probabilidad and the values *)
(* of random.random() are integers on a fixed scale.                       *)
(***************************************************************************)
EXTENDS Integers, Sequences, FiniteSets, TLC

\* ------------------------------------------------------------------ bounds

\* Longest batch of sentences handed to aplicar_DIRT.
MaxFrases == 2

\* random.random() yields r/Escala with r in 0..Escala-1 (the interval [0,1));
\* probabilidad is p/Escala with p in 0..Escala (the interval [0,1]).
Escala == 2

\* ------------------------------------------------------- strings and lemmas

ESPACIO == " "

va == <<"a">>
vb == <<"b">>
vc == <<"c">>

\* str.lower() on one character ("A" and "B" are the upper-case letters in use).
LowerChar(c) == IF c = "A" THEN "a" ELSE IF c = "B" THEN "b" ELSE c

Lower(s) == [k \in 1..Len(s) |-> LowerChar(s[k])]

\* str.find: the first position where old occurs in s, 0 when it does not.
Find(s, old) ==
    LET hits == {k \in 1..(Len(s) - Len(old) + 1) :
                    SubSeq(s, k, k + Len(old) - 1) = old}
    IN  IF hits = {} THEN 0 ELSE CHOOSE k \in hits : \A h \in hits : k <= h

\* str.replace(old, new, 1): only the first occurrence, wherever it is.
Replace1(s, old, new) ==
    LET k == Find(s, old)
    IN  IF k = 0 THEN s
        ELSE SubSeq(s, 1, k - 1) \o new \o SubSeq(s, k + Len(old), Len(s))

\* str.replace(old, new): every non-overlapping occurrence, left to right.
ReplaceAll(s, old, new) ==
    LET RECURSIVE R(_)
        R(t) == LET k == Find(t, old)
                IN  IF k = 0 \/ old = <<>> THEN t
                    ELSE SubSeq(t, 1, k - 1) \o new
                         \o R(SubSeq(t, k + Len(old), Len(t)))
    IN  R(s)

\* ------------------------------------------------- the linguistic oracle

\* spaCy tokens: surface text, part of speech, lemma.
tD == [text |-> <<"d">>, pos |-> "VERB", lemma |-> va]
tE == [text |-> <<"e">>, pos |-> "VERB", lemma |-> <<"B">>]
tA == [text |-> <<"a">>, pos |-> "VERB", lemma |-> va]
tN == [text |-> <<"e", "d">>, pos |-> "NOUN", lemma |-> vb]

\* The parsed sentences the oracle knows.
Docs == { <<tN, tD>>, <<tE, tD>>, <<tA>> }

\* The sentence text of a parse: the tokens' texts separated by one space.
RECURSIVE Texto(_)
Texto(doc) ==
    IF doc = <<>> THEN <<>>
    ELSE IF Len(doc) = 1 THEN doc[1].text
    ELSE doc[1].text \o <<ESPACIO>> \o Texto(Tail(doc))

Frases == { Texto(d) : d \in Docs }

\* nlp(frase): the parse of a sentence.
nlp(frase) == CHOOSE d \in Docs : Texto(d) = frase

\* ------------------------------------------------------- the model file

\* What a path of the file system holds.  tipo: "ausente" (no file),
\* "ilegible" (json.load raises), "json" (a parsed object).  For an object:
\* whether it has the key 'equivalencias', whether that value is a list, and
\* the list.  A record of the list is a function from its keys.
Archivo(tipo, tiene, lista, eqs) ==
    [tipo |-> tipo, tiene_equivalencias |-> tiene, es_lista |-> lista,
     equivalencias |-> eqs]

Ausente == Archivo("ausente", FALSE, FALSE, <<>>)
Ilegible == Archivo("ilegible", FALSE, FALSE, <<>>)
SinEquivalencias == Archivo("json", FALSE, FALSE, <<>>)
NoLista == Archivo("json", TRUE, FALSE, <<>>)
Modelo(eqs) == Archivo("json", TRUE, TRUE, eqs)

\* Python's None, for the cache and for cargar_modelo's result.
None == Archivo("None", FALSE, FALSE, <<>>)

Eq(a, b, s) == [a |-> a, b |-> b, score |-> s]

\* A list whose record lacks the keys b and score.
RegistroIncompleto == Modelo(<<Eq(va, vb, 3), [a |-> va]>>)

\* Models as the builder writes them (score-descending, a # b; M2 has a tie) ...
M0 == Modelo(<<>>)
M1 == Modelo(<<Eq(va, vb, 3), Eq(va, vc, 1)>>)
M2 == Modelo(<<Eq(va, vb, 2), Eq(vc, va, 2)>>)
\* ... and as any other writer of the file may leave them: out of order (M3),
\* a verb paired with itself (M4).
M3 == Modelo(<<Eq(va, vb, 1), Eq(va, vc, 3)>>)
M4 == Modelo(<<Eq(va, va, 3)>>)

ModelosValidos == {M0, M2, M3, M4}

MODELO_INFERENCIAS == "modelo_inferencias.json"

Paths == {MODELO_INFERENCIAS, "otro.json"}

\* ------------------------------------------------ json.dump, json.load

DIGITOS == <<"0", "1", "2", "3", "4", "5", "6", "7", "8", "9">>

\* str(n) for an int n >= 0
RECURSIVE Digitos(_)
Digitos(n) ==
    IF n < 10 THEN <<DIGITOS[n + 1]>>
    ELSE Append(Digitos(n \div 10), DIGITOS[(n % 10) + 1])

\* int(texto) for a text of decimal digits
RECURSIVE Numero(_)
Numero(texto) ==
    IF texto = <<>> THEN 0
    ELSE 10 * Numero(SubSeq(texto, 1, Len(texto) - 1))
         + ((CHOOSE d \in 1..10 : DIGITOS[d] = texto[Len(texto)]) - 1)

\* The text without its trailing zeros, one character kept at least.
RECURSIVE SinCerosFinales(_)
SinCerosFinales(texto) ==
    IF Len(texto) > 1 /\ texto[Len(texto)] = "0"
    THEN SinCerosFinales(SubSeq(texto, 1, Len(texto) - 1))
    ELSE texto

\* A score written with two decimals only.
score_dos_decimales(milesimas) ==
    Digitos(milesimas \div 1000) \o <<".">>
        \o SinCerosFinales(<<DIGITOS[((milesimas % 1000) \div 100) + 1],
                             DIGITOS[((milesimas % 100) \div 10) + 1]>>)

\* json.dump of a float that round(score, 3) returned, given in thousandths:
\* the shortest decimal that reads back as the same double, "0.65", "1.0".
score_a_texto(milesimas) ==
    Digitos(milesimas \div 1000) \o <<".">>
        \o SinCerosFinales(<<DIGITOS[((milesimas % 1000) \div 100) + 1],
                             DIGITOS[((milesimas % 100) \div 10) + 1],
                             DIGITOS[(milesimas % 10) + 1]>>)

\* json.load of such a text, in thousandths.
texto_a_score(texto) ==
    LET punto == CHOOSE k \in 1..Len(texto) : texto[k] = "."
        decimales == SubSeq(texto, punto + 1, Len(texto))
        relleno == [k \in 1..3 |-> IF k <= Len(decimales) THEN decimales[k] ELSE "0"]
    IN  1000 * Numero(SubSeq(texto, 1, punto - 1)) + Numero(relleno)

\* json.dump(modelo, f, indent=2, ensure_ascii=False) of the object that
\* guardar_modelo builds from the scorer's list: the strings as they are,
\* the numbers as decimal text.
json_dump(lista) ==
    [tipo |-> "texto",
     version |-> "1.0",
     num_equivalencias |-> Digitos(Len(lista)),
     equivalencias |->
        [k \in 1..Len(lista) |->
            [a |-> lista[k].a, b |-> lista[k].b,
             score |-> score_a_texto(lista[k].score),
             contextos_compartidos |-> Digitos(lista[k].contextos_compartidos),
             freq_a |-> Digitos(lista[k].freq_a),
             freq_b |-> Digitos(lista[k].freq_b)]]]

\* json.load(f): the object of a file written as text; the other contents
\* of a path stand for the object itself.
json_load(archivo) ==
    IF archivo.tipo # "texto" THEN archivo
    ELSE [tipo |-> "json", tiene_equivalencias |-> TRUE, es_lista |-> TRUE,
          version |-> archivo.version,
          num_equivalencias |-> Numero(archivo.num_equivalencias),
          equivalencias |->
             [k \in 1..Len(archivo.equivalencias) |->
                 LET eq == archivo.equivalencias[k]
                 IN  [a |-> eq.a, b |-> eq.b,
                      score |-> texto_a_score(eq.score),
                      contextos_compartidos |-> Numero(eq.contextos_compartidos),
                      freq_a |-> Numero(eq.freq_a),
                      freq_b |-> Numero(eq.freq_b)]]]

\* ------------------------------------------------------- cargar_modelo

\* The cache ignored: the file is read again at every call.
cargar_sin_cache(cache, archivo) ==
    IF json_load(archivo).tipo # "json" \/ ~json_load(archivo).tiene_equivalencias
    THEN [valor |-> None, cache |-> cache]
    ELSE [valor |-> json_load(archivo), cache |-> json_load(archivo)]

\* A loader that reads the file at its path whenever that file holds a
\* model, and falls back on the cache.
cargar_prefiere_archivo(cache, archivo) ==
    IF json_load(archivo).tipo = "json" /\ json_load(archivo).tiene_equivalencias
    THEN [valor |-> json_load(archivo), cache |-> json_load(archivo)]
    ELSE [valor |-> cache, cache |-> cache]

\* A loader that remembers a failed load.
cargar_recordando_fallo(cache, archivo) ==
    IF cache # None THEN [valor |-> cache, cache |-> cache]
    ELSE IF json_load(archivo).tipo # "json" \/ ~json_load(archivo).tiene_equivalencias
    THEN [valor |-> None, cache |-> Archivo("fallo", FALSE, FALSE, <<>>)]
    ELSE [valor |-> json_load(archivo), cache |-> json_load(archivo)]

\* cargar_modelo(filepath) on a cache and the content of filepath: the value
\* returned and the cache afterwards.
cargar_modelo(cache, archivo) ==
    LET modelo == json_load(archivo)
    IN  IF cache # None THEN [valor |-> cache, cache |-> cache]
        ELSE IF archivo.tipo = "ausente" THEN [valor |-> None, cache |-> cache]
        ELSE IF archivo.tipo = "ilegible" THEN [valor |-> None, cache |-> cache]
        ELSE IF ~modelo.tiene_equivalencias THEN [valor |-> None, cache |-> cache]
        ELSE [valor |-> modelo, cache |-> modelo]

\* ------------------------------------- construir_diccionario_equivalencias

CamposEq == {"a", "b", "score"}

\* The loop over modelo.get("equivalencias", []) raises (TypeError) when the
\* value is not iterable and (KeyError) at a record without a, b or score.
ConstruirLanza(modelo) ==
    \/ ~modelo.es_lista
    \/ \E k \in 1..Len(modelo.equivalencias) :
          ~(CamposEq \subseteq DOMAIN modelo.equivalencias[k])

\* The records indexed under their key a only.
RECURSIVE EntradasDeA(_, _)
EntradasDeA(eqs, v) ==
    IF eqs = <<>> THEN <<>>
    ELSE (IF Head(eqs).a = v THEN << <<Head(eqs).b, Head(eqs).score>> >> ELSE <<>>)
         \o EntradasDeA(Tail(eqs), v)

\* The entries appended under key v, in the order of the model's records:
\* (b, score) for a record with a = v, then (a, score) when its b = v.
RECURSIVE Entradas(_, _)
Entradas(eqs, v) ==
    IF eqs = <<>> THEN <<>>
    ELSE LET eq == Head(eqs)
         IN  (IF eq.a = v THEN << <<eq.b, eq.score>> >> ELSE <<>>)
             \o (IF eq.b = v THEN << <<eq.a, eq.score>> >> ELSE <<>>)
             \o Entradas(Tail(eqs), v)

\* The sort forgotten: the entries stay in the order of the model's records.
SinOrdenar(lista) == lista

\* list.sort(key=score, reverse=True): stable, so equal scores keep their
\* order.  x goes behind every entry whose score is >= its own.
InsertarDesc(lista, x) ==
    LET n == Cardinality({k \in 1..Len(lista) : lista[k][2] >= x[2]})
    IN  SubSeq(lista, 1, n) \o <<x>> \o SubSeq(lista, n + 1, Len(lista))

RECURSIVE OrdenarDesc(_)
OrdenarDesc(lista) ==
    IF lista = <<>> THEN <<>>
    ELSE InsertarDesc(OrdenarDesc(SubSeq(lista, 1, Len(lista) - 1)),
                      lista[Len(lista)])

\* The index {verbo: [(equivalente, score), ...]} of a model that does not
\* make the construction raise.
construir_diccionario_equivalencias(modelo) ==
    LET eqs == modelo.equivalencias
        claves == {eqs[k].a : k \in 1..Len(eqs)} \cup {eqs[k].b : k \in 1..Len(eqs)}
    IN  [v \in claves |-> OrdenarDesc(Entradas(eqs, v))]

\* -------------------------------------------- sustituir_verbo_en_frase

\* str.replace without its count of 1: every occurrence is replaced.
sustituir_todas(spacy, frase, verbo_original, verbo_nuevo) ==
    IF ~spacy THEN ReplaceAll(frase, verbo_original, verbo_nuevo)
    ELSE LET doc == nlp(frase)
             hits == {j \in 1..Len(doc) :
                         /\ Lower(doc[j].lemma) = Lower(verbo_original)
                         /\ doc[j].pos = "VERB"}
         IN  IF hits = {} THEN frase
             ELSE LET j == CHOOSE h \in hits : \A g \in hits : h <= g
                  IN  ReplaceAll(frase, doc[j].text, verbo_nuevo)

\* With spaCy: the surface text of the first VERB token whose lemma is
\* verbo_original is replaced, once, by verbo_nuevo.  Without spaCy: every
\* occurrence of the lemma itself is replaced.
sustituir_verbo_en_frase(spacy, frase, verbo_original, verbo_nuevo) ==
    IF ~spacy THEN ReplaceAll(frase, verbo_original, verbo_nuevo)
    ELSE LET doc == nlp(frase)
             hits == {j \in 1..Len(doc) :
                         /\ Lower(doc[j].lemma) = Lower(verbo_original)
                         /\ doc[j].pos = "VERB"}
         IN  IF hits = {} THEN frase
             ELSE LET j == CHOOSE h \in hits : \A g \in hits : h <= g
                  IN  Replace1(frase, doc[j].text, verbo_nuevo)

\* ------------------------------------------------- aplicar_DIRT, the loop

\* The arguments aplicar_DIRT is called with.
Probabilidades == 0..Escala
MinScores == {1, 3}
\* Optional[int]: <<>> is None, <<n>> is n.
MaxSustituciones == {<<>>, <<0>>, <<1>>}

RECURSIVE SeqsHasta(_, _)
SeqsHasta(S, n) ==
    IF n = 0 THEN {<<>>}
    ELSE LET menores == SeqsHasta(S, n - 1)
         IN  menores \cup {Append(q, x) : q \in {m \in menores : Len(m) = n - 1}, x \in S}

Lotes == SeqsHasta(Frases, MaxFrases)

\* The mark of a token for which random.random() was not called.
SinTirada == 0 - 1

\* The budget test with > for >=.
PresupuestoExcedido(max, realizadas) == max # <<>> /\ realizadas > max[1]

\* max_sustituciones is not None and sustituciones_realizadas >= max_sustituciones
PresupuestoAgotado(max, realizadas) == max # <<>> /\ realizadas >= max[1]

\* The draw compared with <= for <.
SorteoInclusive(r, prob) == r <= prob

\* random.random() < probabilidad
Sorteo(r, prob) == r < prob

\* [(eq_verbo, score) for eq_verbo, score in equiv_dict[verbo_lemma] if score >= min_score]
candidatos(lista, min) ==
    LET Vale(e) == e[2] >= min
    IN  SelectSeq(lista, Vale)

\* nuevo_verbo, score = candidatos[0]
Elegir(cands) == cands[1]

\* The scan given up at the first verb of the index whose draw declines.
RecorrerSoloPrimero(doc, j, dict, prob, min, r) ==
    LET enIndice == {k \in j..Len(doc) :
                        /\ doc[k].pos = "VERB"
                        /\ Lower(doc[k].lemma) \in DOMAIN dict}
    IN  IF enIndice = {} THEN 0
        ELSE LET k == CHOOSE h \in enIndice : \A g \in enIndice : h <= g
             IN  IF /\ Sorteo(r[k], prob)
                    /\ candidatos(dict[Lower(doc[k].lemma)], min) # <<>>
                 THEN k ELSE 0

\* The scan of the tokens from position j on: the position of the token at
\* which the substitution is made (where the scan breaks), 0 when it ends
\* without one.  r[k] is the value random.random() yields at token k.
RECURSIVE RecorrerTokens(_, _, _, _, _, _)
RecorrerTokens(doc, j, dict, prob, min, r) ==
    IF j > Len(doc) THEN 0
    ELSE IF /\ doc[j].pos = "VERB"
            /\ Lower(doc[j].lemma) \in DOMAIN dict
            /\ Sorteo(r[j], prob)
            /\ candidatos(dict[Lower(doc[j].lemma)], min) # <<>>
         THEN j
         ELSE RecorrerTokens(doc, j + 1, dict, prob, min, r)

\* The counter incremented for every sentence scanned.
ContarSiempre(realizadas, j) == realizadas + 1

\* sustituciones_realizadas after a sentence whose scan ended at token j.
Contar(realizadas, j) == IF j # 0 THEN realizadas + 1 ELSE realizadas

\* One iteration of the loop over frases, for a sentence still within the
\* budget: the token the scan stopped at, the sentence emitted, the verb
\* put in, and the draws made.
ProcesarFrase(spacy, frase, dict, prob, min, r) ==
    LET doc == nlp(frase)
        j == RecorrerTokens(doc, 1, dict, prob, min, r)
        lemma == Lower(doc[j].lemma)
        nuevo == Elegir(candidatos(dict[lemma], min))
    IN  [token |-> j,
         nuevo_verbo |-> IF j = 0 THEN <<>> ELSE nuevo[1],
         frase_actual |-> IF j = 0 THEN frase
                          ELSE sustituir_verbo_en_frase(spacy, frase, lemma, nuevo[1]),
         tiradas |-> [k \in 1..Len(doc) |->
                        IF /\ doc[k].pos = "VERB"
                           /\ Lower(doc[k].lemma) \in DOMAIN dict
                           /\ (j = 0 \/ k <= j)
                        THEN r[k] ELSE SinTirada]]

\* ------------------------------------------------------------------ state

VARIABLES
    fs,                        \* the file system: what each path holds
    _modelo_cache,             \* the module-level cache of utils_dirt
    spacy_disponible,          \* whether spacy.load("es_core_news_sm") succeeds
    pc,                        \* "idle", or "loop" inside aplicar_DIRT's loop
    frases,                    \* aplicar_DIRT's arguments ...
    probabilidad,
    min_score,
    max_sustituciones,
    filepath,
    equiv_dict,                \* ... and its locals
    frases_reformuladas,
    sustituciones_realizadas,
    tokens_sustituidos,        \* per sentence emitted: the token the scan broke at
    verbos_nuevos,             \* per sentence emitted: nuevo_verbo, <<>> if none
    tiradas,                   \* per sentence emitted: the values of random.random()
    ret,                       \* the last call: its name, outcome and value
    hilos,                     \* per thread inside cargar_modelo: its position,
                               \* argument, local modelo and value returned
    textos,                    \* main's texts, each one as the oracle parses it
    triples,                   \* calcular_similitudes_verbos' arguments ...
    umbral_score,
    equivalencias,             \* ... and the list it returned, <<>> before
    paso,                      \* the builder's position: "inicio", "textos"
                               \* (the texts are fetched), "triples" (the
                               \* triples are extracted), "equivalencias"
                               \* (scored), "guardado" (the model is written),
                               \* "abortado" (main returned early)
    session,                   \* app.py: the player's cookie session
    sesion_guardada,           \* the stored document of the cookie's
                               \* game_session_id: <<>> or <<document>>
    pistas_persona,            \* the hints stored for the person in play
    respuesta,                 \* the JSON of the last response
    entregadas                 \* the hints the responses of the game in
                               \* play have carried, as <<pista, dificultad>>

vars == <<fs, _modelo_cache, spacy_disponible, pc, frases, probabilidad,
          min_score, max_sustituciones, filepath, equiv_dict,
          frases_reformuladas, sustituciones_realizadas, tokens_sustituidos,
          verbos_nuevos, tiradas, ret, hilos, textos, triples, umbral_score,
          equivalencias, paso, session, sesion_guardada, pistas_persona,
          respuesta, entregadas>>

\* The builder's scorer: its arguments and result.
constructor == <<textos, triples, umbral_score, equivalencias, paso>>

\* The game of app.py: cookie, stored session, hints, last response.
juego == <<session, sesion_guardada, pistas_persona, respuesta, entregadas>>

\* What the sequential callers of utils_dirt leave alone.
ajenos == <<hilos, constructor, juego>>

entorno == <<fs, spacy_disponible>>

locales == <<frases, probabilidad, min_score, max_sustituciones, filepath,
             equiv_dict, frases_reformuladas, sustituciones_realizadas,
             tokens_sustituidos, verbos_nuevos, tiradas>>

\* The same without filepath, the argument every caller of cargar_modelo has.
locales_sin_ruta == <<frases, probabilidad, min_score, max_sustituciones,
                      equiv_dict, frases_reformuladas, sustituciones_realizadas,
                      tokens_sustituidos, verbos_nuevos, tiradas>>

Retorna(op, v) == [op |-> op, estado |-> "retorna", valor |-> v]
Lanza(op) == [op |-> op, estado |-> "excepcion", valor |-> <<>>]
EnCurso(op) == [op |-> op, estado |-> "en curso", valor |-> <<>>]
SinResultado == [op |-> "ninguna", estado |-> "ninguno", valor |-> <<>>]

\* The locals of aplicar_DIRT outside a call.
SinLlamada ==
    /\ frases = <<>>
    /\ probabilidad = 0
    /\ min_score = 0
    /\ max_sustituciones = <<>>
    /\ filepath = MODELO_INFERENCIAS
    /\ equiv_dict = <<>>
    /\ frases_reformuladas = <<>>
    /\ sustituciones_realizadas = 0
    /\ tokens_sustituidos = <<>>
    /\ verbos_nuevos = <<>>
    /\ tiradas = <<>>

\* No call is in progress and the caller holds no result: the next call, or
\* a change of the files, can take place.
Libre == pc = "idle" /\ ret = SinResultado

\* The caller is done with the value returned (or the exception raised); the
\* locals of the call are gone.
Descartar ==
    /\ pc = "idle"
    /\ ret # SinResultado
    /\ ret' = SinResultado
    /\ frases' = <<>>
    /\ probabilidad' = 0
    /\ min_score' = 0
    /\ max_sustituciones' = <<>>
    /\ filepath' = MODELO_INFERENCIAS
    /\ equiv_dict' = <<>>
    /\ frases_reformuladas' = <<>>
    /\ sustituciones_realizadas' = 0
    /\ tokens_sustituidos' = <<>>
    /\ verbos_nuevos' = <<>>
    /\ tiradas' = <<>>
    /\ UNCHANGED <<entorno, _modelo_cache, pc>>
    /\ UNCHANGED ajenos

\* ------------------------------------------------------------ aplicar_DIRT

\* An empty list returned for the input.
RetornoVacio(fr) == <<>>

\* return frases, when cargar_modelo gave None
RetornoSinModelo(fr) == fr

\* The call up to the loop: cargar_modelo, the index, the spaCy import.
aplicar_DIRT_inicio(lotes, rutas) ==
    /\ Libre
    /\ \E fr \in lotes, p \in Probabilidades, ms \in MinScores,
          mx \in MaxSustituciones, fp \in rutas :
          LET c == cargar_modelo(_modelo_cache, fs[fp])
          IN  /\ _modelo_cache' = c.cache
              /\ frases' = fr
              /\ probabilidad' = p
              /\ min_score' = ms
              /\ max_sustituciones' = mx
              /\ filepath' = fp
              /\ frases_reformuladas' = <<>>
              /\ sustituciones_realizadas' = 0
              /\ tokens_sustituidos' = <<>>
              /\ verbos_nuevos' = <<>>
              /\ tiradas' = <<>>
              /\ IF c.valor = None
                 THEN /\ equiv_dict' = <<>>
                      /\ pc' = "idle"
                      /\ ret' = Retorna("aplicar_DIRT", RetornoSinModelo(fr))
                 ELSE IF ConstruirLanza(c.valor)
                 THEN /\ equiv_dict' = <<>>
                      /\ pc' = "idle"
                      /\ ret' = Lanza("aplicar_DIRT")
                 ELSE LET d == construir_diccionario_equivalencias(c.valor)
                      IN  /\ equiv_dict' = d
                          /\ IF DOMAIN d = {} \/ ~spacy_disponible
                             THEN /\ pc' = "idle"
                                  /\ ret' = Retorna("aplicar_DIRT", fr)
                             ELSE /\ pc' = "loop"
                                  /\ ret' = EnCurso("aplicar_DIRT")
    /\ UNCHANGED entorno
    /\ UNCHANGED ajenos

\* One iteration of "for frase in frases".
aplicar_DIRT_frase ==
    /\ pc = "loop"
    /\ Len(frases_reformuladas) < Len(frases)
    /\ LET frase == frases[Len(frases_reformuladas) + 1]
       IN  IF PresupuestoAgotado(max_sustituciones, sustituciones_realizadas)
           THEN /\ frases_reformuladas' = Append(frases_reformuladas, frase)
                /\ tokens_sustituidos' = Append(tokens_sustituidos, 0)
                /\ verbos_nuevos' = Append(verbos_nuevos, <<>>)
                /\ tiradas' = Append(tiradas, <<>>)
                /\ UNCHANGED sustituciones_realizadas
           ELSE \E r \in [1..Len(nlp(frase)) -> 0..(Escala - 1)] :
                   LET res == ProcesarFrase(spacy_disponible, frase, equiv_dict,
                                            probabilidad, min_score, r)
                   IN  /\ frases_reformuladas' =
                              Append(frases_reformuladas, res.frase_actual)
                       /\ tokens_sustituidos' = Append(tokens_sustituidos, res.token)
                       /\ verbos_nuevos' = Append(verbos_nuevos, res.nuevo_verbo)
                       /\ tiradas' = Append(tiradas, res.tiradas)
                       /\ sustituciones_realizadas' =
                              Contar(sustituciones_realizadas, res.token)
    /\ UNCHANGED <<entorno, _modelo_cache, pc, frases, probabilidad, min_score,
                   max_sustituciones, filepath, equiv_dict, ret>>
    /\ UNCHANGED ajenos

\* return frases_reformuladas
aplicar_DIRT_retorno ==
    /\ pc = "loop"
    /\ Len(frases_reformuladas) = Len(frases)
    /\ pc' = "idle"
    /\ ret' = Retorna("aplicar_DIRT", frases_reformuladas)
    /\ UNCHANGED <<entorno, _modelo_cache, locales>>
    /\ UNCHANGED ajenos

\* -------------------------------------------------- the other callers

\* cargar_modelo(filepath) called on its own.
CargarModelo ==
    /\ Libre
    /\ \E fp \in Paths :
          LET c == cargar_modelo(_modelo_cache, fs[fp])
          IN  /\ filepath' = fp
              /\ _modelo_cache' = c.cache
              /\ ret' = Retorna("cargar_modelo", c.valor)
    /\ UNCHANGED <<entorno, pc, locales_sin_ruta>>
    /\ UNCHANGED ajenos

\* round(x / n, 0) on integers, ties to the even neighbour.
Redondear(x, n) ==
    LET q == x \div n
        resto == x % n
    IN  IF 2 * resto < n THEN q
        ELSE IF 2 * resto > n THEN q + 1
        ELSE IF q % 2 = 0 THEN q ELSE q + 1

RECURSIVE Suma(_)
Suma(q) == IF q = <<>> THEN 0 ELSE Head(q) + Suma(Tail(q))

\* The statistics of a model whose list is well formed.
Estadisticas(modelo) ==
    LET eqs == modelo.equivalencias
        scores == [k \in 1..Len(eqs) |-> eqs[k].score]
        verbos == {eqs[k].a : k \in 1..Len(eqs)} \cup {eqs[k].b : k \in 1..Len(eqs)}
    IN  IF eqs = <<>>
        THEN [num_equivalencias |-> 0, verbos_unicos |-> 0, score_promedio |-> 0,
              score_max |-> 0, score_min |-> 0]
        ELSE [num_equivalencias |-> Len(eqs),
              verbos_unicos |-> Cardinality(verbos),
              score_promedio |-> Redondear(Suma(scores), Len(scores)),
              score_max |-> CHOOSE x \in {scores[k] : k \in 1..Len(scores)} :
                              \A k \in 1..Len(scores) : x >= scores[k],
              score_min |-> CHOOSE x \in {scores[k] : k \in 1..Len(scores)} :
                              \A k \in 1..Len(scores) : x <= scores[k]]

ObtenerEstadisticasModelo ==
    /\ Libre
    /\ \E fp \in Paths :
          LET c == cargar_modelo(_modelo_cache, fs[fp])
          IN  /\ filepath' = fp
              /\ _modelo_cache' = c.cache
              /\ ret' = IF c.valor = None
                        THEN Retorna("obtener_estadisticas_modelo", None)
                        ELSE IF ConstruirLanza(c.valor)
                        THEN Lanza("obtener_estadisticas_modelo")
                        ELSE Retorna("obtener_estadisticas_modelo",
                                     Estadisticas(c.valor))
    /\ UNCHANGED <<entorno, pc, locales_sin_ruta>>
    /\ UNCHANGED ajenos

Verbos == {va, vb, vc}
TopN == {1, 5}

ListarEquivalenciasVerbo ==
    /\ Libre
    /\ \E verbo \in Verbos \cup {<<"A">>}, fp \in Paths, top_n \in TopN :
          LET c == cargar_modelo(_modelo_cache, fs[fp])
              d == construir_diccionario_equivalencias(c.valor)
              v == Lower(verbo)
          IN  /\ filepath' = fp
              /\ _modelo_cache' = c.cache
              /\ ret' = IF c.valor = None
                        THEN Retorna("listar_equivalencias_verbo", <<>>)
                        ELSE IF ConstruirLanza(c.valor)
                        THEN Lanza("listar_equivalencias_verbo")
                        ELSE IF v \notin DOMAIN d
                        THEN Retorna("listar_equivalencias_verbo", <<>>)
                        ELSE Retorna("listar_equivalencias_verbo",
                                     SubSeq(d[v], 1, IF top_n < Len(d[v])
                                                     THEN top_n ELSE Len(d[v])))
    /\ UNCHANGED <<entorno, pc, locales_sin_ruta>>
    /\ UNCHANGED ajenos

\* ---------------------------------------------------- the model file's writers

\* dirt_builder.guardar_modelo(equivalencias, filepath): the file is
\* overwritten with a model holding the list.
GuardarModelo ==
    /\ Libre
    /\ \E m \in {M0, M1, M2}, fp \in Paths : fs' = [fs EXCEPT ![fp] = m]
    /\ UNCHANGED <<_modelo_cache, spacy_disponible, pc, locales, ret>>
    /\ UNCHANGED ajenos

\* The file is deleted.
BorrarArchivo ==
    /\ Libre
    /\ \E fp \in Paths : fs' = [fs EXCEPT ![fp] = Ausente]
    /\ UNCHANGED <<_modelo_cache, spacy_disponible, pc, locales, ret>>
    /\ UNCHANGED ajenos

\* The file is left in a state guardar_modelo does not produce.
Corruptos == {Ilegible, SinEquivalencias, NoLista, RegistroIncompleto}

CorromperArchivo ==
    /\ Libre
    /\ \E m \in Corruptos, fp \in Paths : fs' = [fs EXCEPT ![fp] = m]
    /\ UNCHANGED <<_modelo_cache, spacy_disponible, pc, locales, ret>>
    /\ UNCHANGED ajenos

\* ------------------------------- dirt_builder.calcular_similitudes_verbos

\* A triple (sujeto, verbo, objeto); "_" stands for "no object".
SIN_OBJETO == <<"_">>

Triple(sujeto, verbo, objeto) == <<sujeto, verbo, objeto>>

\* collections.Counter over the elements of a sequence: key -> occurrences.
Counter(q) ==
    [x \in {q[k] : k \in 1..Len(q)} |->
        Cardinality({k \in 1..Len(q) : q[k] = x})]

\* The keys of a dict filled in the order of q: first appearances, in order.
RECURSIVE Claves(_)
Claves(q) ==
    IF q = <<>> THEN <<>>
    ELSE LET resto == Claves(SubSeq(q, 1, Len(q) - 1))
             x == q[Len(q)]
         IN  IF \E k \in 1..Len(resto) : resto[k] = x THEN resto
             ELSE Append(resto, x)

RECURSIVE Filtrar(_, _, _)
\* The subjects (campo 1) or objects (campo 3) of the triples of verb v, in
\* order; an object "_" is left out.
Filtrar(trs, v, campo) ==
    IF trs = <<>> THEN <<>>
    ELSE (IF Head(trs)[2] = v /\ (campo = 1 \/ Head(trs)[3] # SIN_OBJETO)
          THEN <<Head(trs)[campo]>> ELSE <<>>)
         \o Filtrar(Tail(trs), v, campo)

RECURSIVE FiltrarTodo(_, _, _)
\* The same with "_" counted as an object like any other.
FiltrarTodo(trs, v, campo) ==
    IF trs = <<>> THEN <<>>
    ELSE (IF Head(trs)[2] = v THEN <<Head(trs)[campo]>> ELSE <<>>)
         \o FiltrarTodo(Tail(trs), v, campo)

\* The Counters with "_" counted among the objects.
contexto_con_vacio(trs, v) ==
    [sujetos |-> Counter(FiltrarTodo(trs, v, 1)),
     objetos |-> Counter(FiltrarTodo(trs, v, 3))]

\* verbos_con_contexto[v] after the first loop over the triples.
verbos_con_contexto(trs, v) ==
    [sujetos |-> Counter(Filtrar(trs, v, 1)),
     objetos |-> Counter(Filtrar(trs, v, 3))]

\* freq_verbos
freq_verbos(trs) == Counter([k \in 1..Len(trs) |-> trs[k][2]])

\* sum(c.values())
RECURSIVE SumaValores(_)
SumaValores(c) ==
    IF DOMAIN c = {} THEN 0
    ELSE LET x == CHOOSE x \in DOMAIN c : TRUE
         IN  c[x] + SumaValores([y \in DOMAIN c \ {x} |-> c[y]])

\* The contexts counted with their multiplicities.
total_con_repeticiones(contexto) ==
    SumaValores(contexto.sujetos) + SumaValores(contexto.objetos)

\* len(contexto["sujetos"]) + len(contexto["objetos"])
total_contextos(contexto) ==
    Cardinality(DOMAIN contexto.sujetos) + Cardinality(DOMAIN contexto.objetos)

\* A fraction n/d as <<n, d>>, d > 0.
Menor(x, y) == IF x <= y THEN x ELSE y
Mayor(x, y) == IF x >= y THEN x ELSE y

\* freq_a / freq_b, the frequencies not ordered.
ratio_sin_ordenar(freq_a, freq_b) == <<freq_a, freq_b>>

\* min(freq_a, freq_b) / max(freq_a, freq_b) if max(freq_a, freq_b) > 0 else 0
ratio_freq(freq_a, freq_b) ==
    IF Mayor(freq_a, freq_b) > 0
    THEN <<Menor(freq_a, freq_b), Mayor(freq_a, freq_b)>>
    ELSE <<0, 1>>

\* contextos_compartidos / union if union > 0 else 0
similitud(contextos_compartidos, union) ==
    IF union > 0 THEN <<contextos_compartidos, union>> ELSE <<0, 1>>

\* (similitud * 0.7) + (ratio_freq * 0.3), as a fraction
score(sim, ratio) ==
    <<7 * sim[1] * ratio[2] + 3 * ratio[1] * sim[2], 10 * sim[2] * ratio[2]>>

\* The sum is computed in doubles, each operation rounded.  Among the scores
\* that equal a threshold of Umbrales, the double falls short of the exact
\* sum for 0.5 * 0.7 + 1.0 * 0.3, which is 0.6499999999999999.
PorDebajo(sim, ratio) == 2 * sim[1] = sim[2] /\ ratio[1] = ratio[2]

\* score >= umbral_score
AlcanzaUmbral(sim, ratio, umbral) ==
    LET sc == score(sim, ratio)
    IN  \/ sc[1] * umbral[2] > umbral[1] * sc[2]
        \/ sc[1] * umbral[2] = umbral[1] * sc[2] /\ ~PorDebajo(sim, ratio)

\* round(score, 3), in thousandths
round3(sc) == Redondear(1000 * sc[1], sc[2])

\* Every pair taken as sharing a context.
comparten_siempre(sujetos_comunes, objetos_comunes) == TRUE

\* if sujetos_comunes or objetos_comunes
comparten(sujetos_comunes, objetos_comunes) ==
    sujetos_comunes # {} \/ objetos_comunes # {}

\* The body of the inner loop for the pair (verbo_a, verbo_b): the records
\* appended, none or one.
Par(trs, umbral, verbo_a, verbo_b) ==
    LET contexto_a == verbos_con_contexto(trs, verbo_a)
        contexto_b == verbos_con_contexto(trs, verbo_b)
        sujetos_comunes == DOMAIN contexto_a.sujetos \cap DOMAIN contexto_b.sujetos
        objetos_comunes == DOMAIN contexto_a.objetos \cap DOMAIN contexto_b.objetos
        total_contextos_a == total_contextos(contexto_a)
        total_contextos_b == total_contextos(contexto_b)
        contextos_compartidos ==
            Cardinality(sujetos_comunes) + Cardinality(objetos_comunes)
        union == total_contextos_a + total_contextos_b - contextos_compartidos
        freq_a == freq_verbos(trs)[verbo_a]
        freq_b == freq_verbos(trs)[verbo_b]
        sim == similitud(contextos_compartidos, union)
        ratio == ratio_freq(freq_a, freq_b)
        sc == score(sim, ratio)
    IN  IF /\ verbo_a # verbo_b
           /\ comparten(sujetos_comunes, objetos_comunes)
           /\ total_contextos_a > 0 /\ total_contextos_b > 0
           /\ AlcanzaUmbral(sim, ratio, umbral)
        THEN << [a |-> verbo_a, b |-> verbo_b, score |-> round3(sc),
                 contextos_compartidos |-> contextos_compartidos,
                 freq_a |-> freq_a, freq_b |-> freq_b] >>
        ELSE <<>>

\* for i, verbo_a in enumerate(verbos): for verbo_b in verbos: every ordered
\* pair, in loop order.
ParesOrdenados(verbos) ==
    LET n == Len(verbos)
    IN  [k \in 1..(n * n) |->
            <<verbos[((k - 1) \div n) + 1], verbos[((k - 1) % n) + 1]>>]

RECURSIVE Pares(_)
\* for i, verbo_a in enumerate(verbos): for verbo_b in verbos[i+1:], in loop
\* order.
Pares(verbos) ==
    IF verbos = <<>> THEN <<>>
    ELSE [k \in 1..(Len(verbos) - 1) |-> <<verbos[1], verbos[k + 1]>>]
         \o Pares(Tail(verbos))

RECURSIVE Recorrer(_, _, _)
\* equivalencias after the loops: the records appended, pair after pair.
Recorrer(trs, umbral, pares) ==
    IF pares = <<>> THEN <<>>
    ELSE Par(trs, umbral, pares[1][1], pares[1][2])
         \o Recorrer(trs, umbral, Tail(pares))

\* The list left as the loops filled it.
lista_sin_ordenar(lista) == lista

RECURSIVE ordenar_por_score(_)
\* equivalencias.sort(key=lambda x: x["score"], reverse=True): stable.
ordenar_por_score(lista) ==
    IF lista = <<>> THEN <<>>
    ELSE LET antes == ordenar_por_score(SubSeq(lista, 1, Len(lista) - 1))
             x == lista[Len(lista)]
             n == Cardinality({k \in 1..Len(antes) : antes[k].score >= x.score})
         IN  SubSeq(antes, 1, n) \o <<x>> \o SubSeq(antes, n + 1, Len(antes))

calcular_similitudes_verbos(trs, umbral) ==
    LET verbos == Claves([k \in 1..Len(trs) |-> trs[k][2]])
    IN  ordenar_por_score(Recorrer(trs, umbral, Pares(verbos)))

\* The inputs: subjects x and y, verbs a, b and c, objects o, p and none.
suj_x == <<"x">>
suj_y == <<"y">>
obj_o == <<"o">>
obj_p == <<"p">>

TriplesPosibles ==
    { Triple(suj_x, va, obj_o), Triple(suj_y, vb, obj_o), Triple(suj_x, va, obj_p),
      Triple(suj_x, vb, obj_p), Triple(suj_y, vc, SIN_OBJETO), Triple(suj_x, vc, SIN_OBJETO),
      Triple(suj_y, va, SIN_OBJETO), Triple(suj_y, vc, obj_p) }

MaxTriples == 3

\* umbral_score as a fraction: 0, 0.1 (the default), 0.5333, 0.65.
Umbrales == { <<0, 1>>, <<1, 10>>, <<5333, 10000>>, <<13, 20>> }

UMBRAL_POR_DEFECTO == <<1, 10>>

\* The scorer not called.
SinCalculo ==
    /\ textos = <<>>
    /\ triples = <<>>
    /\ umbral_score = UMBRAL_POR_DEFECTO
    /\ equivalencias = <<>>
    /\ paso = "triples"

\* equivalencias = calcular_similitudes_verbos(triples, umbral_score)
CalcularSimilitudes ==
    /\ paso = "triples"
    /\ equivalencias' = calcular_similitudes_verbos(triples, umbral_score)
    /\ paso' = "equivalencias"
    /\ UNCHANGED <<entorno, _modelo_cache, pc, locales, ret, hilos, juego, textos,
                   triples, umbral_score>>

\* guardar_modelo(equivalencias, filepath) on the list just scored.
GuardarEquivalencias ==
    /\ paso = "equivalencias"
    /\ \E fp \in Paths : fs' = [fs EXCEPT ![fp] = json_dump(equivalencias)]
    /\ paso' = "guardado"
    /\ UNCHANGED <<spacy_disponible, _modelo_cache, pc, locales, ret, hilos, juego,
                   textos, triples, umbral_score, equivalencias>>

\* ------------------------------------------ dirt_builder.extraer_triples_svo

\* A child of a token in the dependency parse, and a token of the builder's
\* oracle: part of speech, lemma, children in the order of token.children.
Hijo(dep, lemma) == [dep |-> dep, lemma |-> lemma]

TokenSVO(pos, lemma, children) == [pos |-> pos, lemma |-> lemma, children |-> children]

DEP_SUJETO == {"nsubj", "nsubjpass"}

DEP_OBJETO == {"dobj", "obj", "iobj"}

\* The loops without their break: the last child whose dep_ is in deps.
RECURSIVE ultimo_hijo(_, _)
ultimo_hijo(children, deps) ==
    IF children = <<>> THEN <<>>
    ELSE IF ultimo_hijo(Tail(children), deps) # <<>>
         THEN ultimo_hijo(Tail(children), deps)
    ELSE IF Head(children).dep \in deps THEN <<Head(children)>>
    ELSE <<>>

\* The first child whose dep_ is in deps, <<>> when there is none
\* (the for ... break loops).
RECURSIVE primer_hijo(_, _)
primer_hijo(children, deps) ==
    IF children = <<>> THEN <<>>
    ELSE IF Head(children).dep \in deps THEN <<Head(children)>>
    ELSE primer_hijo(Tail(children), deps)

\* The triples of one verb token: one when sujeto and verbo.lemma_ are truthy.
triple_de_verbo(verbo) ==
    LET hijo_sujeto == primer_hijo(verbo.children, DEP_SUJETO)
        hijo_objeto == primer_hijo(verbo.children, DEP_OBJETO)
        sujeto == IF hijo_sujeto = <<>> THEN <<>> ELSE Lower(hijo_sujeto[1].lemma)
        objeto == IF hijo_objeto = <<>> THEN <<>> ELSE Lower(hijo_objeto[1].lemma)
    IN  IF sujeto # <<>> /\ verbo.lemma # <<>>
        THEN <<Triple(sujeto, Lower(verbo.lemma),
                      IF objeto # <<>> THEN objeto ELSE SIN_OBJETO)>>
        ELSE <<>>

\* for verbo in verbos, verbos the tokens of the sentence with pos_ "VERB"
RECURSIVE triples_de_oracion(_)
triples_de_oracion(sent) ==
    IF sent = <<>> THEN <<>>
    ELSE (IF Head(sent).pos = "VERB" THEN triple_de_verbo(Head(sent)) ELSE <<>>)
         \o triples_de_oracion(Tail(sent))

\* for sent in doc.sents
RECURSIVE triples_de_texto(_)
triples_de_texto(doc) ==
    IF doc = <<>> THEN <<>>
    ELSE triples_de_oracion(Head(doc)) \o triples_de_texto(Tail(doc))

\* for i, texto in enumerate(textos)
RECURSIVE extraer_triples_svo(_)
extraer_triples_svo(txts) ==
    IF txts = <<>> THEN <<>>
    ELSE triples_de_texto(Head(txts)) \o extraer_triples_svo(Tail(txts))

\* The tokens the oracle produces here.
tk_fundar == TokenSVO("VERB", <<"A">>, <<Hijo("nsubj", suj_x), Hijo("obj", obj_o)>>)
tk_sin_sujeto == TokenSVO("VERB", vb, <<Hijo("obj", obj_o), Hijo("advmod", suj_y)>>)
tk_pasiva ==
    TokenSVO("VERB", vb, <<Hijo("iobj", obj_p), Hijo("nsubjpass", <<"B">>),
                           Hijo("nsubj", suj_x), Hijo("dobj", obj_o)>>)
tk_nombre == TokenSVO("NOUN", obj_o, <<Hijo("nsubj", suj_y)>>)
tk_intransitivo == TokenSVO("VERB", vc, <<Hijo("advmod", obj_p), Hijo("nsubj", suj_x)>>)

\* The texts the oracle parses here: sentences of tokens.
TextosPosibles ==
    { <<>>,
      << <<tk_nombre, tk_fundar>> >>,
      << <<tk_sin_sujeto>>, <<tk_nombre>> >>,
      << <<tk_pasiva>>, <<tk_intransitivo, tk_fundar>> >>,
      << <<tk_intransitivo, tk_sin_sujeto>> >> }

\* ------------------------------------------------------ dirt_builder.main

\* Most texts fetched from Wikipedia in one run.
MaxTextos == 3

\* The five example biographies, as parsed.
textos_ejemplo ==
    << << <<tk_nombre, tk_fundar>> >>,
       << <<tk_pasiva>>, <<tk_intransitivo, tk_fundar>> >>,
       << <<tk_intransitivo, tk_sin_sujeto>> >>,
       << <<tk_sin_sujeto>>, <<tk_nombre>> >>,
       << <<tk_nombre, tk_fundar>> >> >>

\* obtener_textos_biografias: the texts fetched, the examples added when
\* fewer than three were.
obtener_textos_biografias(obtenidos) ==
    IF Len(obtenidos) < 3 THEN obtenidos \o textos_ejemplo ELSE obtenidos

\* A stage of main that never reports an empty result.
nunca_vacio(resultado) == FALSE

\* "if not textos", "if not triples", "if not equivalencias"
vacio(resultado) == resultado = <<>>

\* textos = obtener_textos_biografias(num_personas=15), and the return on
\* an empty list
main_obtener_textos ==
    /\ paso = "inicio"
    /\ \E obtenidos \in SeqsHasta(TextosPosibles, MaxTextos) :
          /\ textos' = obtener_textos_biografias(obtenidos)
          /\ paso' = IF vacio(textos') THEN "abortado" ELSE "textos"
    /\ UNCHANGED <<entorno, _modelo_cache, pc, locales, ret, hilos, juego, triples,
                   umbral_score, equivalencias>>

\* triples = extraer_triples_svo(textos), and the return on an empty list
main_extraer_triples ==
    /\ paso = "textos"
    /\ triples' = extraer_triples_svo(textos)
    /\ paso' = IF vacio(triples') THEN "abortado" ELSE "triples"
    /\ UNCHANGED <<entorno, _modelo_cache, pc, locales, ret, hilos, juego, textos,
                   umbral_score, equivalencias>>

\* equivalencias = calcular_similitudes_verbos(triples, umbral_score=0.1),
\* and the return on an empty list
main_calcular_similitudes ==
    /\ paso = "triples"
    /\ umbral_score' = UMBRAL_POR_DEFECTO
    /\ equivalencias' = calcular_similitudes_verbos(triples, umbral_score')
    /\ paso' = IF vacio(equivalencias') THEN "abortado" ELSE "equivalencias"
    /\ UNCHANGED <<entorno, _modelo_cache, pc, locales, ret, hilos, juego, textos,
                   triples>>

\* guardar_modelo(equivalencias), on the default path
main_guardar_modelo ==
    /\ paso = "equivalencias"
    /\ fs' = [fs EXCEPT ![MODELO_INFERENCIAS] = json_dump(equivalencias)]
    /\ paso' = "guardado"
    /\ UNCHANGED <<spacy_disponible, _modelo_cache, pc, locales, ret, hilos, juego,
                   textos, triples, umbral_score, equivalencias>>

\* ------------------------------------------------- app.py: the game routes

\* Most hints stored for a person.
MaxPistas == 3

\* Most non-empty guesses made in one game.
MaxIntentos == 2

\* str.strip()
RECURSIVE strip(_)
strip(texto) ==
    IF texto = <<>> THEN <<>>
    ELSE IF Head(texto) = ESPACIO THEN strip(Tail(texto))
    ELSE IF texto[Len(texto)] = ESPACIO THEN strip(SubSeq(texto, 1, Len(texto) - 1))
    ELSE texto

\* str.split(): the words between runs of whitespace
RECURSIVE split(_)
split(texto) ==
    LET t == strip(texto)
        k == Find(t, <<ESPACIO>>)
    IN  IF t = <<>> THEN <<>>
        ELSE IF k = 0 THEN <<t>>
        ELSE <<SubSeq(t, 1, k - 1)>> \o split(SubSeq(t, k + 1, Len(t)))

is_guess_correct(guess, person_name) ==
    LET guess_normalized == strip(Lower(guess))
        person_normalized == strip(Lower(person_name))
        name_parts == split(person_normalized)
    IN  \/ guess_normalized = person_normalized
        \/ \E k \in 1..Len(name_parts) : guess_normalized = name_parts[k]

\* The person in play, and what a player may send as 'guess'.
PERSONA == <<"A", " ", "b">>

Guesses == { <<>>, <<" ">>, <<" ", "B", " ">>, <<"a", " ", "b">>, <<"c">>, <<"b", "c">> }

\* A stored hint; 'dificultad' may be missing.
Pista(texto, dificultad) == [pista |-> texto, dificultad |-> dificultad]

PistasPosibles ==
    { Pista("p1", 2), Pista("p2", 2), Pista("p2", 1), Pista("p1", 1),
      [pista |-> "p3"] }

\* x.get('dificultad', 0)
dificultad(x) == IF "dificultad" \in DOMAIN x THEN x.dificultad ELSE 0

\* The hints in the order they are stored.
pistas_sin_ordenar(pistas) == pistas

\* sorted(pistas, key=lambda x: x.get('dificultad', 0), reverse=True):
\* stable, a hint goes behind those whose difficulty is >= its own.
RECURSIVE pistas_ordenadas(_)
pistas_ordenadas(pistas) ==
    IF pistas = <<>> THEN <<>>
    ELSE LET previas == pistas_ordenadas(SubSeq(pistas, 1, Len(pistas) - 1))
             x == pistas[Len(pistas)]
             n == Cardinality({k \in 1..Len(previas) :
                                  dificultad(previas[k]) >= dificultad(x)})
         IN  SubSeq(previas, 1, n) \o <<x>> \o SubSeq(previas, n + 1, Len(previas))

Elementos(q) == {q[k] : k \in 1..Len(q)}

\* [p for p in pistas_ordenadas if p['pista'] not in hints_used]
available_hints(pistas, hints_used) ==
    SelectSeq(pistas_ordenadas(pistas), LAMBDA p : p.pista \notin Elementos(hints_used))

\* [g for g in session_data['guesses'] if g.strip()]
real_guesses(guesses) == SelectSeq(guesses, LAMBDA g : strip(g) # <<>>)

\* The cookie without a game: 'current_person', 'hints_used' and
\* 'game_session_id' popped.
SinPartida == [current_person |-> <<>>, hints_used |-> <<>>, game_session_id |-> FALSE]

\* A response; the fields a route does not send are <<>>.
Respuesta(ruta, status, hint, dif, hints_remaining, correct, attempts_count) ==
    [ruta |-> ruta, status |-> status, hint |-> hint, dificultad |-> dif,
     hints_remaining |-> hints_remaining, correct |-> correct,
     attempts_count |-> attempts_count]

Error(ruta) == Respuesta(ruta, "error", <<>>, <<>>, <<>>, <<>>, <<>>)

SinRespuesta == Respuesta("ninguna", "ninguno", <<>>, <<>>, <<>>, <<>>, <<>>)

SinJuego ==
    /\ session = SinPartida
    /\ sesion_guardada = <<>>
    /\ pistas_persona = <<>>
    /\ respuesta = SinRespuesta
    /\ entregadas = <<>>

\* What the routes of the game leave alone.
resto == <<entorno, _modelo_cache, pc, locales, ret, hilos, constructor>>

\* update_one with $push / $set on the stored session, nothing when there
\* is no document with the session id.
push_pista(doc, hint) ==
    IF doc = <<>> THEN doc
    ELSE <<[doc[1] EXCEPT !.pista = Append(@, hint), !.acierto = FALSE]>>

push_guess(doc, guess) ==
    IF doc = <<>> THEN doc ELSE <<[doc[1] EXCEPT !.guesses = Append(@, guess)]>>

set_acierto(doc, correct) ==
    IF doc = <<>> THEN doc ELSE <<[doc[1] EXCEPT !.acierto = correct]>>

\* start_game: the person is drawn from the store, the cookie is set, the
\* first hint of the sorted list is delivered and the session document
\* created with it.
start_game ==
    /\ LET ordenadas == pistas_ordenadas(pistas_persona)
       IN  /\ UNCHANGED pistas_persona
           /\ IF ordenadas # <<>>
              THEN /\ session' = [current_person |-> <<PERSONA>>,
                                  hints_used |-> <<ordenadas[1].pista>>,
                                  game_session_id |-> TRUE]
                   /\ sesion_guardada' = <<[pista |-> <<ordenadas[1].pista>>,
                                            guesses |-> <<>>,
                                            acierto |-> FALSE]>>
                   /\ respuesta' = Respuesta("start_game", "success",
                                             <<ordenadas[1].pista>>,
                                             <<dificultad(ordenadas[1])>>,
                                             <<Len(ordenadas) - 1>>, <<>>, <<>>)
                   /\ entregadas' = << <<ordenadas[1].pista, dificultad(ordenadas[1])>> >>
              ELSE /\ session' = [current_person |-> <<PERSONA>>,
                                  hints_used |-> <<>>,
                                  game_session_id |-> TRUE]
                   /\ sesion_guardada' = <<>>
                   /\ respuesta' = Error("start_game")
                   /\ entregadas' = <<>>
    /\ UNCHANGED resto

\* The body of get_hint, reached from its route and from make_guess with an
\* empty guess.
pedir_pista(ruta) ==
    LET disponibles == available_hints(pistas_persona, session.hints_used)
    IN  IF session.current_person = <<>>
        THEN /\ respuesta' = Error(ruta)
             /\ UNCHANGED <<session, sesion_guardada, entregadas>>
        ELSE IF disponibles = <<>>
        THEN /\ respuesta' = Respuesta(ruta, "success", <<>>, <<>>, <<0>>, <<>>, <<>>)
             /\ UNCHANGED <<session, sesion_guardada, entregadas>>
        ELSE /\ session' = [session EXCEPT !.hints_used = Append(@, disponibles[1].pista)]
             /\ sesion_guardada' =
                   IF session.game_session_id
                   THEN push_guess(push_pista(sesion_guardada, disponibles[1].pista), <<>>)
                   ELSE sesion_guardada
             /\ respuesta' = Respuesta(ruta, "success", <<disponibles[1].pista>>,
                                       <<dificultad(disponibles[1])>>,
                                       <<Len(disponibles) - 1>>, <<>>, <<>>)
             /\ entregadas' = Append(entregadas, <<disponibles[1].pista,
                                                   dificultad(disponibles[1])>>)

get_hint ==
    /\ pedir_pista("get_hint")
    /\ UNCHANGED <<pistas_persona, resto>>

\* The guesses recorded so far that are not the "" of a hint.
Intentos == IF sesion_guardada = <<>> THEN 0 ELSE Len(real_guesses(sesion_guardada[1].guesses))

\* The JSON bodies of make_guess: none, or {'guess': ...}.
Datos == {<<>>} \cup {<<g>> : g \in Guesses}

\* make_guess with the JSON body data
make_guess ==
    /\ \E data \in Datos :
          LET guess == strip(data[1])
              correct == is_guess_correct(guess, session.current_person[1])
              guardada == IF session.game_session_id
                          THEN push_guess(sesion_guardada, guess)
                          ELSE sesion_guardada
              attempts_count ==
                  IF session.game_session_id /\ guardada # <<>>
                  THEN Len(real_guesses(guardada[1].guesses)) + 1
                  ELSE 1
              disponibles == available_hints(pistas_persona, session.hints_used)
          IN  IF session.current_person = <<>>
              THEN /\ respuesta' = Error("make_guess")
                   /\ UNCHANGED <<session, sesion_guardada, entregadas>>
              ELSE IF data = <<>>
              THEN /\ respuesta' = Error("make_guess")
                   /\ UNCHANGED <<session, sesion_guardada, entregadas>>
              ELSE IF guess = <<>> THEN pedir_pista("make_guess")
              ELSE /\ Intentos < MaxIntentos
                   /\ IF correct
                      THEN /\ sesion_guardada' = set_acierto(guardada, TRUE)
                           /\ session' = SinPartida
                           /\ respuesta' = Respuesta("make_guess", "success", <<>>, <<>>,
                                                     <<>>, <<TRUE>>, <<attempts_count - 1>>)
                           /\ UNCHANGED entregadas
                      ELSE IF disponibles # <<>>
                      THEN /\ session' = [session EXCEPT
                                             !.hints_used = Append(@, disponibles[1].pista)]
                           /\ sesion_guardada' = push_pista(guardada, disponibles[1].pista)
                           /\ respuesta' = Respuesta("make_guess", "success",
                                                     <<disponibles[1].pista>>,
                                                     <<dificultad(disponibles[1])>>,
                                                     <<Len(disponibles) - 1>>, <<FALSE>>, <<>>)
                           /\ entregadas' = Append(entregadas, <<disponibles[1].pista,
                                                                 dificultad(disponibles[1])>>)
                      ELSE /\ sesion_guardada' = set_acierto(guardada, FALSE)
                           /\ respuesta' = Respuesta("make_guess", "success", <<>>, <<>>,
                                                     <<0>>, <<FALSE>>, <<>>)
                           /\ UNCHANGED <<session, entregadas>>
    /\ UNCHANGED <<pistas_persona, resto>>

\* get_answer: the answer is revealed and the game ends.
get_answer ==
    /\ LET attempts_count ==
              IF session.game_session_id /\ sesion_guardada # <<>>
              THEN Len(real_guesses(sesion_guardada[1].guesses))
              ELSE 0
       IN  IF session.current_person = <<>>
           THEN /\ respuesta' = Error("get_answer")
                /\ UNCHANGED <<session, sesion_guardada>>
           ELSE /\ sesion_guardada' = IF session.game_session_id
                                      THEN set_acierto(sesion_guardada, FALSE)
                                      ELSE sesion_guardada
                /\ session' = SinPartida
                /\ respuesta' = Respuesta("get_answer", "success", <<>>, <<>>, <<>>,
                                          <<>>, <<attempts_count - 1>>)
    /\ UNCHANGED <<pistas_persona, entregadas, resto>>

\* ------------------------------------- cargar_modelo from several threads

NumHilos == 2

Hilos == 1..NumHilos

\* A thread's frame of cargar_modelo: pc is "fuera" (no call), "cache"
\* (about to test the cache), "leer" (about to look at the file), "asignar"
\* (holding the validated object, about to store it) or "fin" (returned).
Hilo(pc_, fp, modelo, valor) ==
    [pc |-> pc_, filepath |-> fp, modelo |-> modelo, valor |-> valor]

HiloFuera == Hilo("fuera", MODELO_INFERENCIAS, None, None)

SinHilos == hilos = [t \in Hilos |-> HiloFuera]

\* if _modelo_cache is not None: return _modelo_cache
cargar_modelo_cache(t) ==
    /\ hilos[t].pc = "cache"
    /\ hilos' = [hilos EXCEPT ![t] =
                    IF _modelo_cache # None
                    THEN Hilo("fin", @.filepath, None, _modelo_cache)
                    ELSE Hilo("leer", @.filepath, None, None)]
    /\ UNCHANGED <<entorno, _modelo_cache, pc, locales, ret, constructor, juego>>

\* os.path.exists, open, json.load and the test of the key: None is returned
\* unless the file holds an object with the key 'equivalencias'.
cargar_modelo_leer(t) ==
    /\ hilos[t].pc = "leer"
    /\ LET archivo == json_load(fs[hilos[t].filepath])
       IN  hilos' = [hilos EXCEPT ![t] =
                        IF archivo.tipo # "json" \/ ~archivo.tiene_equivalencias
                        THEN Hilo("fin", @.filepath, None, None)
                        ELSE Hilo("asignar", @.filepath, archivo, None)]
    /\ UNCHANGED <<entorno, _modelo_cache, pc, locales, ret, constructor, juego>>

\* _modelo_cache = modelo; return modelo
cargar_modelo_asignar(t) ==
    /\ hilos[t].pc = "asignar"
    /\ _modelo_cache' = hilos[t].modelo
    /\ hilos' = [hilos EXCEPT ![t] = Hilo("fin", @.filepath, @.modelo, @.modelo)]
    /\ UNCHANGED <<entorno, pc, locales, ret, constructor, juego>>

\* ---------------------------------------------------- specifications

\* A fresh process: empty cache, no call made; any model files on disk.
Archivos == {Ausente, M0, M1, M2} \cup Corruptos

Init ==
    /\ fs \in [Paths -> Archivos]
    /\ _modelo_cache = None
    /\ spacy_disponible \in BOOLEAN
    /\ pc = "idle"
    /\ SinLlamada
    /\ SinJuego
    /\ ret = SinResultado
    /\ SinHilos
    /\ SinCalculo

\* The batches used while the files change.
LotesEntorno == {<<>>, <<Texto(<<tN, tD>>)>>, <<Texto(<<tE, tD>>), Texto(<<tA>>)>>}

AplicarEntorno == aplicar_DIRT_inicio(LotesEntorno, Paths)

Next ==
    \/ AplicarEntorno
    \/ aplicar_DIRT_frase
    \/ aplicar_DIRT_retorno
    \/ Descartar
    \/ CargarModelo
    \/ ObtenerEstadisticasModelo
    \/ ListarEquivalenciasVerbo
    \/ GuardarModelo
    \/ BorrarArchivo
    \/ CorromperArchivo

Spec == Init /\ [][Next]_vars

\* aplicar_DIRT alone, on every batch, with a well-formed model on disk.
InitAplicar ==
    /\ \E m \in ModelosValidos :
          fs = [p \in Paths |-> IF p = MODELO_INFERENCIAS THEN m ELSE Ausente]
    /\ _modelo_cache = None
    /\ spacy_disponible \in BOOLEAN
    /\ pc = "idle"
    /\ SinLlamada
    /\ SinJuego
    /\ ret = SinResultado
    /\ SinHilos
    /\ SinCalculo

AplicarLotes == aplicar_DIRT_inicio(Lotes, {MODELO_INFERENCIAS})

NextAplicar ==
    \/ AplicarLotes
    \/ aplicar_DIRT_frase
    \/ aplicar_DIRT_retorno
    \/ Descartar

SpecAplicar == InitAplicar /\ [][NextAplicar]_vars

\* cargar_modelo called once by each thread, with no lock, while the files
\* change.
InitConcurrente ==
    /\ fs \in [Paths -> Archivos]
    /\ _modelo_cache = None
    /\ spacy_disponible = FALSE
    /\ pc = "idle"
    /\ SinLlamada
    /\ SinJuego
    /\ ret = SinResultado
    /\ hilos \in [Hilos -> {Hilo("cache", fp, None, None) : fp \in Paths}]
    /\ SinCalculo

NextConcurrente ==
    \/ \E t \in Hilos : cargar_modelo_cache(t)
    \/ \E t \in Hilos : cargar_modelo_leer(t)
    \/ \E t \in Hilos : cargar_modelo_asignar(t)
    \/ GuardarModelo
    \/ BorrarArchivo
    \/ CorromperArchivo

SpecConcurrente == InitConcurrente /\ [][NextConcurrente]_vars

\* calcular_similitudes_verbos on every sequence of triples and threshold.
InitConstructor ==
    /\ \E m \in {Ausente} : fs = [p \in Paths |-> m]
    /\ _modelo_cache = None
    /\ spacy_disponible = FALSE
    /\ pc = "idle"
    /\ SinLlamada
    /\ SinJuego
    /\ ret = SinResultado
    /\ SinHilos
    /\ textos = <<>>
    /\ triples \in SeqsHasta(TriplesPosibles, MaxTriples)
    /\ umbral_score \in Umbrales
    /\ equivalencias = <<>>
    /\ paso = "triples"

NextConstructor ==
    \/ CalcularSimilitudes
    \/ GuardarEquivalencias

SpecConstructor == InitConstructor /\ [][NextConstructor]_vars

\* main after its scoring stage (calcular_similitudes_verbos with
\* umbral_score=0.1 has returned), in a process that also loads models; a
\* model written by an earlier run may be on disk.
InitGuardarCargar ==
    /\ textos = <<>>
    /\ triples \in SeqsHasta(TriplesPosibles, MaxTriples)
    /\ umbral_score = UMBRAL_POR_DEFECTO
    /\ equivalencias = calcular_similitudes_verbos(triples, umbral_score)
    /\ paso = "equivalencias"
    /\ fs \in [Paths -> {Ausente, M2}]
    /\ _modelo_cache = None
    /\ spacy_disponible = FALSE
    /\ pc = "idle"
    /\ SinLlamada
    /\ SinJuego
    /\ ret = SinResultado
    /\ SinHilos

NextGuardarCargar ==
    \/ GuardarEquivalencias
    \/ CargarModelo
    \/ Descartar

SpecGuardarCargar == InitGuardarCargar /\ [][NextGuardarCargar]_vars

\* One run of the builder's main; a model of an earlier run may be on disk.
InitMain ==
    /\ fs \in [Paths -> {Ausente, M2}]
    /\ _modelo_cache = None
    /\ spacy_disponible = FALSE
    /\ pc = "idle"
    /\ SinLlamada
    /\ SinJuego
    /\ ret = SinResultado
    /\ SinHilos
    /\ textos = <<>>
    /\ triples = <<>>
    /\ umbral_score = UMBRAL_POR_DEFECTO
    /\ equivalencias = <<>>
    /\ paso = "inicio"

NextMain ==
    \/ main_obtener_textos
    \/ main_extraer_triples
    \/ main_calcular_similitudes
    \/ main_guardar_modelo

SpecMain == InitMain /\ [][NextMain]_vars

\* The game of one player over the hints stored for the person; the
\* document store is available.
InitJuego ==
    /\ fs = [p \in Paths |-> Ausente]
    /\ _modelo_cache = None
    /\ spacy_disponible = FALSE
    /\ pc = "idle"
    /\ SinLlamada
    /\ session = SinPartida
    /\ sesion_guardada = <<>>
    /\ pistas_persona \in SeqsHasta(PistasPosibles, MaxPistas)
    /\ respuesta = SinRespuesta
    /\ entregadas = <<>>
    /\ ret = SinResultado
    /\ SinHilos
    /\ SinCalculo

NextJuego ==
    \/ start_game
    \/ get_hint
    \/ make_guess
    \/ get_answer

SpecJuego == InitJuego /\ [][NextJuego]_vars

\* ------------------------------------------------------ reading a call

\* str.split(" ")
RECURSIVE Palabras(_)
Palabras(s) ==
    LET k == Find(s, <<ESPACIO>>)
    IN  IF k = 0 THEN <<s>>
        ELSE <<SubSeq(s, 1, k - 1)>> \o Palabras(SubSeq(s, k + 1, Len(s)))

\* The positions at which two sentences differ, word by word.
PalabrasDistintas(s, t) ==
    {k \in 1..Len(Palabras(s)) :
        k > Len(Palabras(t)) \/ Palabras(s)[k] # Palabras(t)[k]}

\* The text of a parse with the surface text of token j replaced by w.
TextoCon(doc, j, w) == Texto([doc EXCEPT ![j].text = w])

\* The sentences emitted so far by the call of aplicar_DIRT.
Emitidas == 1..Len(frases_reformuladas)

\* The emitted sentences whose text is not that of the input sentence.
Cambiadas == {i \in Emitidas : frases_reformuladas[i] # frases[i]}

\* The emitted sentences in which a substitution was made.
Sustituidas == {i \in Emitidas : tokens_sustituidos[i] # 0}

\* The call of aplicar_DIRT has ended.
AplicarTerminado == ret.op = "aplicar_DIRT" /\ pc = "idle"

AplicarRetorno == AplicarTerminado /\ ret.estado = "retorna"

\* Token k of a parse is a verb with an index entry of score >= min_score.
Elegible(doc, k) ==
    /\ doc[k].pos = "VERB"
    /\ Lower(doc[k].lemma) \in DOMAIN equiv_dict
    /\ \E e \in 1..Len(equiv_dict[Lower(doc[k].lemma)]) :
          equiv_dict[Lower(doc[k].lemma)][e][2] >= min_score

Minimo(S) == CHOOSE x \in S : \A y \in S : x <= y

\* ------------------------------------------------------------------ claims

\* C1: every call of aplicar_DIRT, whatever the model file and the cache
\* hold, returns a sequence as long as its input whose sentence i is input
\* sentence i or a rewrite of it (one token's text replaced by a verb).
EsReescritura(entrada, salida) ==
    \E k \in 1..Len(nlp(entrada)), w \in Verbos :
        salida = Replace1(entrada, nlp(entrada)[k].text, w)

C1_LongitudYOrden ==
    AplicarTerminado =>
        /\ ret.estado = "retorna"
        /\ Len(ret.valor) = Len(frases)
        /\ \A i \in 1..Len(frases) :
              ret.valor[i] = frases[i] \/ EsReescritura(frases[i], ret.valor[i])

\* C1, on the calls that return: the length and the order are those of the input.
C1_LongitudYOrdenSiRetorna ==
    AplicarRetorno =>
        /\ Len(ret.valor) = Len(frases)
        /\ \A i \in 1..Len(frases) :
              ret.valor[i] = frases[i] \/ EsReescritura(frases[i], ret.valor[i])

\* C2: a call of aplicar_DIRT that returns while no file is present at its
\* filepath returns its input, whatever calls were made before it.
C2_SinArchivoDevuelveEntrada ==
    (AplicarRetorno /\ fs[filepath] = Ausente) => ret.valor = frases

\* C2 amended: with no file at filepath and nothing in the cache, the call
\* returns its input.
C2_SinArchivoNiCache ==
    (AplicarTerminado /\ fs[filepath] = Ausente /\ _modelo_cache = None) =>
        ret.estado = "retorna" /\ ret.valor = frases

C2_Testigo ==
    /\ AplicarRetorno
    /\ fs[filepath] = Ausente
    /\ _modelo_cache = None
    /\ Len(frases) = 2
    /\ ret.valor = frases
    /\ \E p \in Paths : fs[p] \in {M1, M2}

\* C3: with probabilidad = 0 no verb is substituted: the counter stays 0,
\* every sentence emitted is the input sentence, and the value returned is
\* the input.
C3_ProbabilidadCero ==
    (ret.op = "aplicar_DIRT" /\ probabilidad = 0) =>
        /\ sustituciones_realizadas = 0
        /\ Cambiadas = {}
        /\ Sustituidas = {}
        /\ ret.estado # "excepcion"
        /\ (ret.estado = "retorna" => ret.valor = frases)

\* A call with probabilidad = 0 has returned after drawing, and declining,
\* for a verb that has an eligible equivalent.
C3_Testigo ==
    /\ AplicarRetorno
    /\ probabilidad = 0
    /\ Len(frases) = 2
    /\ ret.valor = frases
    /\ \E i \in Emitidas : \E k \in 1..Len(tiradas[i]) :
          tiradas[i][k] # SinTirada /\ Elegible(nlp(frases[i]), k)

\* C4: a sentence emitted differs from its input sentence in at most one
\* word, and no draw is made for a token behind the one substituted.
C4_UnaSustitucionPorFrase ==
    \A i \in Emitidas :
        /\ Len(Palabras(frases_reformuladas[i])) = Len(Palabras(frases[i]))
        /\ Cardinality(PalabrasDistintas(frases[i], frases_reformuladas[i])) <= 1
        /\ tokens_sustituidos[i] # 0 =>
              \A k \in 1..Len(tiradas[i]) :
                  k > tokens_sustituidos[i] => tiradas[i][k] = SinTirada

\* The first of two eligible verbs of a sentence was substituted, the second
\* left alone.
C4_Testigo ==
    \E i \in Emitidas :
        /\ tokens_sustituidos[i] = 1
        /\ Len(nlp(frases[i])) = 2
        /\ Elegible(nlp(frases[i]), 1)
        /\ Elegible(nlp(frases[i]), 2)
        /\ PalabrasDistintas(frases[i], frases_reformuladas[i]) = {1}

\* C5: a sentence emitted that differs from its input sentence differs from
\* it only within a verb token of the input: every other word is unchanged.
C5_SoloDentroDeVerbos ==
    \A i \in Cambiadas :
        \A k \in PalabrasDistintas(frases[i], frases_reformuladas[i]) :
            nlp(frases[i])[k].pos = "VERB"

\* C6: with max_sustituciones = n the counter never exceeds n, at most n
\* sentences are rewritten, and a sentence reached with n substitutions made
\* is emitted unmodified.
C6_Presupuesto ==
    max_sustituciones # <<>> =>
        /\ sustituciones_realizadas <= max_sustituciones[1]
        /\ Cardinality(Cambiadas) <= max_sustituciones[1]
        /\ \A i \in Emitidas :
              Cardinality({k \in Sustituidas : k < i}) >= max_sustituciones[1] =>
                  /\ frases_reformuladas[i] = frases[i]
                  /\ tokens_sustituidos[i] = 0

\* With max_sustituciones = 1 the first sentence was rewritten and the
\* second, whose verb would have been substituted for certain, was not.
C6_Testigo ==
    /\ AplicarRetorno
    /\ max_sustituciones = <<1>>
    /\ probabilidad = Escala
    /\ Len(frases) >= 2
    /\ 1 \in Cambiadas
    /\ frases_reformuladas[2] = frases[2]
    /\ \E k \in 1..Len(nlp(frases[2])) : Elegible(nlp(frases[2]), k)

\* C7: at every point of the loop the counter is the number of sentences
\* emitted whose text differs from the input sentence.
C7_ContadorIgualCambiadas ==
    ret.op = "aplicar_DIRT" => sustituciones_realizadas = Cardinality(Cambiadas)

\* C7 amended: at every point of the loop the counter is the number of
\* sentences emitted in which a substitution was made, each at a token whose
\* draw was below probabilidad; it is at least the number of sentences whose
\* text differs.
C7_ContadorIgualSustituidas ==
    ret.op = "aplicar_DIRT" =>
        /\ sustituciones_realizadas = Cardinality(Sustituidas)
        /\ Cardinality(Cambiadas) <= sustituciones_realizadas
        /\ \A i \in Sustituidas :
              /\ tiradas[i][tokens_sustituidos[i]] # SinTirada
              /\ tiradas[i][tokens_sustituidos[i]] < probabilidad
              /\ Elegible(nlp(frases[i]), tokens_sustituidos[i])

\* A substitution that left the text as it was has been counted, and a
\* sentence whose draw declined has not.
C7_Testigo ==
    /\ pc = "loop"
    /\ sustituciones_realizadas = 1
    /\ \E i \in Sustituidas : i \notin Cambiadas
    /\ \E i \in Emitidas :
          /\ i \notin Sustituidas
          /\ \E k \in 1..Len(tiradas[i]) :
                tiradas[i][k] # SinTirada /\ Elegible(nlp(frases[i]), k)

\* C8: the verb put in for lemma v is the partner of v in the first record
\* of the model, among those that hold v with the highest score >= min_score.
RegistroDe(eq, v, w) == (eq.a = v /\ eq.b = w) \/ (eq.b = v /\ eq.a = w)

Contiene(eq, v) == eq.a = v \/ eq.b = v

C8_MejorEquivalente ==
    \A i \in Sustituidas :
        LET v == Lower(nlp(frases[i])[tokens_sustituidos[i]].lemma)
            w == verbos_nuevos[i]
            eqs == _modelo_cache.equivalencias
        IN  \E k \in 1..Len(eqs) :
               /\ RegistroDe(eqs[k], v, w)
               /\ eqs[k].score >= min_score
               /\ \A m \in 1..Len(eqs) :
                     (Contiene(eqs[m], v) /\ eqs[m].score >= min_score) =>
                         /\ eqs[m].score <= eqs[k].score
                         /\ (eqs[m].score = eqs[k].score /\ m < k) =>
                               RegistroDe(eqs[m], v, w)

\* A verb with two eligible equivalents of different score, the better one
\* second in the file, was substituted.
C8_Testigo ==
    \E i \in Sustituidas :
        LET v == Lower(nlp(frases[i])[tokens_sustituidos[i]].lemma)
            eqs == _modelo_cache.equivalencias
        IN  /\ Len(eqs) = 2
            /\ Contiene(eqs[1], v) /\ Contiene(eqs[2], v)
            /\ min_score <= eqs[1].score
            /\ eqs[1].score < eqs[2].score
            /\ RegistroDe(eqs[2], v, verbos_nuevos[i])

\* C9: the substitution of a sentence is decided at, or at least changes the
\* text of, its first verb token with an index entry of score >= min_score:
\* no later verb token is the one substituted.
PrimerElegible(doc) ==
    LET E == {k \in 1..Len(doc) : Elegible(doc, k)}
    IN  IF E = {} THEN 0 ELSE Minimo(E)

Acertados(i) ==
    {k \in 1..Len(tiradas[i]) :
        /\ tiradas[i][k] # SinTirada
        /\ tiradas[i][k] < probabilidad
        /\ Elegible(nlp(frases[i]), k)}

C10_NuncaLanza ==
    AplicarTerminado =>
        /\ ret.estado = "retorna"
        /\ (_modelo_cache = None \/ ConstruirLanza(_modelo_cache)) =>
              ret.valor = frases

\* ------------------------------------------------ cargar_modelo, the cache

\* A parsed file that fails the structural validation the load is to make:
\* the field 'equivalencias' is missing, or is there but is not a list.
Invalido(archivo) ==
    /\ archivo.tipo = "json"
    /\ ~archivo.tiene_equivalencias \/ ~archivo.es_lista

\* A step that is a call of op made by a caller that held no result.
Llamada(op) == ret = SinResultado /\ ret'.op = op

\* C11: a call of cargar_modelo with an empty cache on a file whose
\* 'equivalencias' field is missing or is not a list returns None, does not
\* raise, and leaves the cache empty.
C11_InvalidoComoAusente ==
    [][ (Llamada("cargar_modelo") /\ _modelo_cache = None
            /\ Invalido(fs[filepath']))
        => (ret' = Retorna("cargar_modelo", None) /\ _modelo_cache' = None) ]_vars

\* The part of C11 the code keeps: a missing field is treated as absent.
C11_SinCampoComoAusente ==
    [][ (Llamada("cargar_modelo") /\ _modelo_cache = None
            /\ fs[filepath'] = SinEquivalencias)
        => (ret' = Retorna("cargar_modelo", None) /\ _modelo_cache' = None) ]_vars

\* What a call that starts with the model m in the cache must leave behind:
\* the value, index or statistics of m, or the exception m's list raises.
Observa(m) ==
    LET d == construir_diccionario_equivalencias(m)
    IN  CASE ret'.op = "cargar_modelo" -> ret' = Retorna("cargar_modelo", m)
          [] ret'.op = "aplicar_DIRT" ->
                IF ConstruirLanza(m) THEN ret' = Lanza("aplicar_DIRT")
                ELSE equiv_dict' = d /\ ret'.estado # "excepcion"
          [] ret'.op = "obtener_estadisticas_modelo" ->
                IF ConstruirLanza(m) THEN ret' = Lanza("obtener_estadisticas_modelo")
                ELSE ret' = Retorna("obtener_estadisticas_modelo", Estadisticas(m))
          [] ret'.op = "listar_equivalencias_verbo" ->
                IF ConstruirLanza(m) THEN ret' = Lanza("listar_equivalencias_verbo")
                ELSE /\ ret'.estado = "retorna"
                     /\ \/ ret'.valor = <<>>
                        \/ \E v \in DOMAIN d : \E n \in 1..Len(d[v]) :
                              ret'.valor = SubSeq(d[v], 1, n)
          [] OTHER -> TRUE

\* C12: once a model is in the cache no step changes the cache, whatever
\* happens to the files, and every later call of cargar_modelo, aplicar_DIRT,
\* obtener_estadisticas_modelo and listar_equivalencias_verbo works on that
\* model.
C12_CacheInmutable ==
    [][ _modelo_cache # None
        => /\ _modelo_cache' = _modelo_cache
           /\ (ret = SinResultado /\ ret' # SinResultado)
                 => Observa(_modelo_cache) ]_vars

\* A call of cargar_modelo has returned the cached model M2 after
\* guardar_modelo rewrote the file at its path with M1.
C12_Testigo ==
    /\ ret.op = "cargar_modelo"
    /\ ~ConstruirLanza(_modelo_cache) /\ _modelo_cache = M2
    /\ ret.valor = _modelo_cache
    /\ fs[filepath].tipo = "json" /\ ~ConstruirLanza(fs[filepath])
    /\ fs[filepath] = M1

\* The threads that have returned from cargar_modelo with a model.
ConModelo(h) == {t \in Hilos : h[t].pc = "fin" /\ h[t].valor # None}

\* C13: with threads calling cargar_modelo concurrently, without a lock, while
\* the model file is rewritten, the cache is assigned at most once (a cache
\* that holds a model is not assigned again) and all the threads that return
\* a model return the same one.
C13_UnaEscrituraMismoModelo ==
    [][ /\ _modelo_cache # None => ~(\E t \in Hilos : cargar_modelo_asignar(t))
        /\ \A t, u \in ConModelo(hilos') : hilos'[t].valor = hilos'[u].valor ]_vars

\* ------------------------------------------------------------ the scorer

\* calcular_similitudes_verbos has returned equivalencias.
Calculado == paso \in {"equivalencias", "guardado"}

\* The lists of the models guardar_modelo has written.
Guardadas ==
    {json_load(fs[p]).equivalencias : p \in {q \in Paths : fs[q].tipo = "texto"}}

\* The list returned and the lists persisted.
Listas == (IF Calculado THEN {equivalencias} ELSE {}) \cup Guardadas

\* C14: every record returned by calcular_similitudes_verbos has a score
\* between 0 and 1 (0 and 1000 thousandths) and at least one shared context.
C14_CotasDelScore ==
    Calculado =>
        \A k \in 1..Len(equivalencias) :
            /\ equivalencias[k].score >= 0
            /\ equivalencias[k].score <= 1000
            /\ equivalencias[k].contextos_compartidos >= 1

\* A list with a record at the upper end, score 1 on two shared contexts,
\* and a record with a single shared context.
C14_Testigo ==
    /\ Calculado
    /\ \E k \in 1..Len(equivalencias) :
          equivalencias[k].score = 1000 /\ equivalencias[k].contextos_compartidos = 2
    /\ \E k \in 1..Len(equivalencias) :
          equivalencias[k].score < 600 /\ equivalencias[k].contextos_compartidos = 1

\* C15: no record of the list built with umbral_score has a stored score (the
\* one rounded to three decimals) below umbral_score.
C15_UmbralEnGuardado ==
    Calculado =>
        \A k \in 1..Len(equivalencias) :
            equivalencias[k].score * umbral_score[2] >= 1000 * umbral_score[1]

\* The part of C15 that holds: a threshold with at most three decimals.
C15_UmbralDeTresDecimales ==
    (Calculado /\ (1000 * umbral_score[1]) % umbral_score[2] = 0) =>
        \A k \in 1..Len(equivalencias) :
            equivalencias[k].score * umbral_score[2] >= 1000 * umbral_score[1]

\* lista is in non-increasing order of score.
NoCreciente(lista) ==
    \A k \in 1..(Len(lista) - 1) : lista[k].score >= lista[k + 1].score

\* C16: the list returned by calcular_similitudes_verbos, and the list in
\* the file guardar_modelo writes, are in non-increasing order of score.
C16_OrdenDescendente == \A lista \in Listas : NoCreciente(lista)

\* A model is written whose records the sort had to reorder.
C16_Testigo ==
    /\ paso = "guardado"
    /\ Guardadas = {equivalencias}
    /\ Len(equivalencias) >= 2
    /\ equivalencias[1].score > equivalencias[Len(equivalencias)].score
    /\ ~NoCreciente(Recorrer(triples, umbral_score,
                             Pares(Claves([k \in 1..Len(triples) |-> triples[k][2]]))))

\* C17: in every built model each record has a # b, and no two records have
\* the same unordered pair {a, b}.
C17_ParesUnicos ==
    \A lista \in Listas :
        /\ \A k \in 1..Len(lista) : lista[k].a # lista[k].b
        /\ \A j, k \in 1..Len(lista) :
              {lista[j].a, lista[j].b} = {lista[k].a, lista[k].b} => j = k

\* A model with the three pairs of three verbs is written.
C17_Testigo ==
    /\ paso = "guardado"
    /\ Guardadas = {equivalencias}
    /\ Len(equivalencias) = 3

\* What a list says of each unordered pair: its score, its shared contexts
\* and the frequency of each of its verbs; orientation and order forgotten.
Normal(lista) ==
    { [par |-> {lista[k].a, lista[k].b},
       score |-> lista[k].score,
       contextos_compartidos |-> lista[k].contextos_compartidos,
       frecuencias |-> {<<lista[k].a, lista[k].freq_a>>,
                        <<lista[k].b, lista[k].freq_b>>}] : k \in 1..Len(lista) }

\* The triples in the order given by the permutation p of their positions.
Permutar(trs, p) == [k \in 1..Len(trs) |-> trs[p[k]]]

\* C18: every permutation of the triples gives the same unordered pairs with
\* the same score, shared-context count and frequencies per verb.
C18_IndependienteDelOrden ==
    Calculado =>
        \A p \in Permutations(1..Len(triples)) :
            Normal(calcular_similitudes_verbos(Permutar(triples, p), umbral_score))
                = Normal(equivalencias)

\* Three triples scored into a record for verbs of different frequencies,
\* and a permutation of them that gives another list (the a/b orientation
\* changes).
C18_Testigo ==
    /\ Calculado
    /\ Len(triples) = 3
    /\ Len(equivalencias) >= 1
    /\ \E k \in 1..Len(equivalencias) :
          equivalencias[k].freq_a # equivalencias[k].freq_b
    /\ \E p \in Permutations(1..Len(triples)) :
          calcular_similitudes_verbos(Permutar(triples, p), umbral_score)
              # equivalencias

\* The positions of the triples of verb v, its distinct subject lemmas and
\* its distinct object lemmas.
TriplesDe(v) == {k \in 1..Len(triples) : triples[k][2] = v}
SujetosDe(v) == {triples[k][1] : k \in TriplesDe(v)}
ObjetosDe(v) == {triples[k][3] : k \in TriplesDe(v)} \ {SIN_OBJETO}

Compartidos(v, w) ==
    Cardinality(SujetosDe(v) \cap SujetosDe(w))
        + Cardinality(ObjetosDe(v) \cap ObjetosDe(w))

TotalDe(v) == Cardinality(SujetosDe(v)) + Cardinality(ObjetosDe(v))

\* 0.7 * shared / (total_v + total_w - shared) + 0.3 * min(freq) / max(freq)
\* as a fraction, for a pair that shares a context.
Formula(v, w) ==
    LET shared == Compartidos(v, w)
        den == TotalDe(v) + TotalDe(w) - shared
        mn == Menor(Cardinality(TriplesDe(v)), Cardinality(TriplesDe(w)))
        mx == Mayor(Cardinality(TriplesDe(v)), Cardinality(TriplesDe(w)))
    IN  <<7 * shared * mx + 3 * mn * den, 10 * den * mx>>

VerbosDe == {triples[k][2] : k \in 1..Len(triples)}

EnLista(v, w) ==
    \E k \in 1..Len(equivalencias) :
        {equivalencias[k].a, equivalencias[k].b} = {v, w}

\* (cientifica, fundar, instituto), (investigador, crear, instituto),
\* (cientifica, fundar, universidad)
Ejemplo ==
    << Triple(suj_x, va, obj_o), Triple(suj_y, vb, obj_o), Triple(suj_x, va, obj_p) >>

\* C20: every pair of distinct verbs that shares a subject or object lemma
\* and whose score is >= umbral_score is in the list, no pair without a
\* shared lemma is, and the example's triples with the default threshold
\* give the pair {fundar, crear} with a shared context and a positive score.
C20_Completo ==
    Calculado =>
        /\ \A v, w \in VerbosDe :
              (v # w /\ Compartidos(v, w) >= 1
                 /\ Formula(v, w)[1] * umbral_score[2]
                        >= umbral_score[1] * Formula(v, w)[2])
              => EnLista(v, w)
        /\ \A k \in 1..Len(equivalencias) :
              Compartidos(equivalencias[k].a, equivalencias[k].b) >= 1
        /\ (triples = Ejemplo /\ umbral_score = UMBRAL_POR_DEFECTO)
              => \E k \in 1..Len(equivalencias) :
                    /\ {equivalencias[k].a, equivalencias[k].b} = {va, vb}
                    /\ equivalencias[k].contextos_compartidos >= 1
                    /\ equivalencias[k].score > 0

\* What holds of C20: the same for the pairs whose score is above the
\* threshold.
C20_CompletoSobreUmbral ==
    Calculado =>
        /\ \A v, w \in VerbosDe :
              (v # w /\ Compartidos(v, w) >= 1
                 /\ Formula(v, w)[1] * umbral_score[2]
                        > umbral_score[1] * Formula(v, w)[2])
              => EnLista(v, w)
        /\ \A k \in 1..Len(equivalencias) :
              Compartidos(equivalencias[k].a, equivalencias[k].b) >= 1
        /\ (triples = Ejemplo /\ umbral_score = UMBRAL_POR_DEFECTO)
              => \E k \in 1..Len(equivalencias) :
                    /\ {equivalencias[k].a, equivalencias[k].b} = {va, vb}
                    /\ equivalencias[k].contextos_compartidos >= 1
                    /\ equivalencias[k].score > 0

\* The triples of verb v that have an object.
ConObjeto(v) == {k \in TriplesDe(v) : triples[k][3] # SIN_OBJETO}

\* C21: after the first loop, for every verb the counts of its subject
\* Counter add up to the number of triples with that verb, which is its
\* entry of freq_verbos, and the counts of its object Counter add up to the
\* number of its triples whose object is not "_".
C21_Conservacion ==
    Calculado =>
        \A v \in VerbosDe :
            LET contexto == verbos_con_contexto(triples, v)
            IN  /\ SumaValores(contexto.sujetos) = Cardinality(TriplesDe(v))
                /\ freq_verbos(triples)[v] = Cardinality(TriplesDe(v))
                /\ SumaValores(contexto.objetos) = Cardinality(ConObjeto(v))

\* A verb with the same subject in two triples, one of them without object.
C21_Testigo ==
    /\ Calculado
    /\ \E v \in VerbosDe :
          /\ Cardinality(TriplesDe(v)) = 3
          /\ Cardinality(SujetosDe(v)) = 2
          /\ Cardinality(ConObjeto(v)) = 1

\* What guardar_modelo wrote is at the path the call of cargar_modelo reads.
Guardado(fp) == paso = "guardado" /\ fs[fp] = json_dump(equivalencias)

\* The model returned holds the list E, record for record in E's order, and
\* records len(E) as its number of equivalences.
DevuelveLista(valor, E) ==
    /\ valor # None
    /\ valor.equivalencias = E
    /\ valor.num_equivalencias = Len(E)

\* C22: a cargar_modelo(path) that follows guardar_modelo(E, path) returns a
\* model whose list of equivalences is E, in the same order, and whose
\* num_equivalencias is len(E).
C22_IdaYVuelta ==
    [][ (Llamada("cargar_modelo") /\ Guardado(filepath'))
        => DevuelveLista(ret'.valor, equivalencias) ]_vars

\* C22 amended: the same, for a call made while the cache is empty.
C22_IdaYVueltaSinCache ==
    [][ (Llamada("cargar_modelo") /\ Guardado(filepath') /\ _modelo_cache = None)
        => DevuelveLista(ret'.valor, equivalencias) ]_vars

\* A list of three records, one of them with a score of three decimals, has
\* been saved and loaded back.
C22_Testigo ==
    /\ ret.op = "cargar_modelo"
    /\ Guardado(filepath)
    /\ Len(equivalencias) = 3
    /\ \E k \in 1..Len(equivalencias) : equivalencias[k].score % 10 # 0
    /\ DevuelveLista(ret.valor, equivalencias)

\* The models guardar_modelo has written.
ModelosGuardados == {json_load(fs[p]) : p \in {q \in Paths : fs[q].tipo = "texto"}}

\* C23: in a run of main a stage that yields an empty result (no texts, no
\* triples, no equivalences) ends the run, and nothing happens after that;
\* the model file changes only when guardar_modelo is reached with texts,
\* triples and equivalences that are not empty, and no model written holds
\* an empty list of equivalences.
C23_SinModeloVacio ==
    [][ /\ paso # "abortado"
        /\ (paso' = "textos" => textos' # <<>>)
        /\ (paso' = "triples" => triples' # <<>>)
        /\ (paso' = "equivalencias" => equivalencias' # <<>>)
        /\ (fs' # fs =>
               /\ paso' = "guardado"
               /\ textos # <<>> /\ triples # <<>> /\ equivalencias # <<>>)
        /\ \A m \in ModelosGuardados' : m.equivalencias # <<>> ]_vars

\* A run has stopped on an empty list of equivalences, with triples
\* extracted, and the model of an earlier run is still on disk.
C23_Testigo ==
    /\ paso = "abortado"
    /\ triples # <<>>
    /\ equivalencias = <<>>
    /\ fs[MODELO_INFERENCIAS] = M2

\* A run has stopped on an empty list of triples.
SinTriples == paso = "abortado" /\ textos # <<>> /\ triples = <<>>

\* The elements of a sequence of sequences, in order.
RECURSIVE Aplanar(_)
Aplanar(ss) == IF ss = <<>> THEN <<>> ELSE Head(ss) \o Aplanar(Tail(ss))

\* The tokens of main's texts in document order.
TokensEnOrden == Aplanar(Aplanar(textos))

HijosCon(token, deps) == {i \in DOMAIN token.children : token.children[i].dep \in deps}

\* The lemma, lower-cased as every field of a triple is, of the first child
\* of the token whose dependency label is in deps.
PrimerLemma(token, deps) ==
    LET i == CHOOSE h \in HijosCon(token, deps) :
                \A j \in HijosCon(token, deps) : h <= j
    IN  Lower(token.children[i].lemma)

VerboConSujeto(token) == token.pos = "VERB" /\ HijosCon(token, DEP_SUJETO) # {}

Extraido == paso \notin {"inicio", "textos"}

\* C24: the triples extracted are, in document order, one for each verb
\* token that has a nsubj or nsubjpass child, and none for any other token;
\* the subject of a triple is the (lower-cased) lemma of the first such
\* child, its verb the (lower-cased) lemma of the token, its object the
\* (lower-cased) lemma of the first dobj, obj or iobj child, "_" when there
\* is no such child.
C24_UnTriplePorVerboConSujeto ==
    Extraido =>
        LET emisores == SelectSeq(TokensEnOrden, VerboConSujeto)
        IN  /\ Len(triples) = Len(emisores)
            /\ \A k \in 1..Len(emisores) :
                  /\ triples[k][1] = PrimerLemma(emisores[k], DEP_SUJETO)
                  /\ triples[k][2] = Lower(emisores[k].lemma)
                  /\ triples[k][3] =
                        IF HijosCon(emisores[k], DEP_OBJETO) = {} THEN SIN_OBJETO
                        ELSE PrimerLemma(emisores[k], DEP_OBJETO)

\* Triples have been extracted from texts that hold a verb with two subject
\* children and an indirect object before its direct object, a verb without
\* subject, a noun with a subject child and a verb without object.
C24_Testigo ==
    /\ Extraido
    /\ {tk_pasiva, tk_sin_sujeto, tk_nombre, tk_intransitivo}
          \subseteq {TokensEnOrden[k] : k \in 1..Len(TokensEnOrden)}
    /\ \E k \in 1..Len(triples) : triples[k] = Triple(vb, vb, obj_p)
    /\ \E k \in 1..Len(triples) : triples[k] = Triple(suj_x, vc, SIN_OBJETO)
    /\ Len(triples) < Len(TokensEnOrden)

\* The appends made for the model's records: record k appends under key a
\* (lado 1) and then under key b (lado 2).
Inserciones(eqs) == (1..Len(eqs)) \X {1, 2}

ClaveDe(eqs, ins) == IF ins[2] = 1 THEN eqs[ins[1]].a ELSE eqs[ins[1]].b

EntradaDe(eqs, ins) ==
    IF ins[2] = 1 THEN <<eqs[ins[1]].b, eqs[ins[1]].score>>
    ELSE <<eqs[ins[1]].a, eqs[ins[1]].score>>

\* A list of (verb, score) entries in non-increasing order of score.
NoCreciente2(lista) ==
    \A k \in 1..(Len(lista) - 1) : lista[k][2] >= lista[k + 1][2]

Antes(i, j) == i[1] < j[1] \/ (i[1] = j[1] /\ i[2] < j[2])

\* The place of an append in its key's list: behind the appends under the
\* same key of higher score, and those of equal score made before it.
Lugar(eqs, ins) ==
    1 + Cardinality({otra \in Inserciones(eqs) :
                        /\ ClaveDe(eqs, otra) = ClaveDe(eqs, ins)
                        /\ \/ EntradaDe(eqs, otra)[2] > EntradaDe(eqs, ins)[2]
                           \/ /\ EntradaDe(eqs, otra)[2] = EntradaDe(eqs, ins)[2]
                              /\ Antes(otra, ins)})

\* aplicar_DIRT has built its index from the model in the cache.
IndiceConstruido ==
    /\ ret.op = "aplicar_DIRT"
    /\ ret.estado # "excepcion"
    /\ _modelo_cache # None

\* C25: the index holds, for every record (a, b, s) of the model, the entry
\* (b, s) under a and the entry (a, s) under b, and nothing else; every
\* key's list is in non-increasing order of score, entries of equal score in
\* the order of the model's records.
C25_IndiceCompletoYOrdenado ==
    IndiceConstruido =>
        LET eqs == _modelo_cache.equivalencias
        IN  /\ DOMAIN equiv_dict = {ClaveDe(eqs, ins) : ins \in Inserciones(eqs)}
            /\ \A v \in DOMAIN equiv_dict :
                  Len(equiv_dict[v]) =
                     Cardinality({ins \in Inserciones(eqs) : ClaveDe(eqs, ins) = v})
            /\ \A ins \in Inserciones(eqs) :
                  equiv_dict[ClaveDe(eqs, ins)][Lugar(eqs, ins)] = EntradaDe(eqs, ins)
            /\ \A v \in DOMAIN equiv_dict : NoCreciente2(equiv_dict[v])

\* An index has been built from a model whose records are not in score
\* order: the entries of the first key are not in the order of the records.
C25_Testigo ==
    /\ IndiceConstruido
    /\ _modelo_cache = M3
    /\ equiv_dict[va] = << <<vc, 3>>, <<vb, 1>> >>
    /\ equiv_dict[vc] = << <<va, 3>> >>

\* An index has been built from a model with two records of equal score.
IndiceConEmpate ==
    /\ IndiceConstruido
    /\ _modelo_cache = M2
    /\ equiv_dict[va] = << <<vb, 2>>, <<vc, 2>> >>

\* A call starts: the caller held no result and now has one, or is in the
\* loop of aplicar_DIRT.
EmpiezaLlamada == ret = SinResultado /\ ret' # SinResultado

\* C27: the cache has no path: it is filled from the file at the path of the
\* call that fills it, and from then on a call (cargar_modelo, aplicar_DIRT,
\* obtener_estadisticas_modelo, listar_equivalencias_verbo) whose filepath
\* holds no file, an invalid file or another model works on the cached
\* model, and leaves it in the cache.
C27_CacheSinRuta ==
    [][ /\ (_modelo_cache = None /\ _modelo_cache' # None)
              => _modelo_cache' = json_load(fs[filepath'])
        /\ (_modelo_cache # None /\ EmpiezaLlamada
                /\ json_load(fs[filepath']) # _modelo_cache)
              => (Observa(_modelo_cache) /\ _modelo_cache' = _modelo_cache) ]_vars

\* obtener_estadisticas_modelo, called with a path that holds the model M2,
\* has returned the statistics of M1, cached from the file at the other path.
C27_Testigo ==
    /\ ret.op = "obtener_estadisticas_modelo"
    /\ ret.estado = "retorna"
    /\ _modelo_cache = M1
    /\ ret.valor = Estadisticas(M1)
    /\ fs[filepath] = M2
    /\ \E p \in Paths \ {filepath} : fs[p] = M1

\* A file cargar_modelo accepts: it parses and has the key 'equivalencias'.
Aceptado(archivo) ==
    json_load(archivo).tipo = "json" /\ json_load(archivo).tiene_equivalencias

\* C28: a call of cargar_modelo that returns None leaves the cache empty,
\* and a call made with an empty cache on a path that holds a valid file
\* reads it and returns its model: a failed load is not remembered.
C28_FalloNoCacheado ==
    [][ Llamada("cargar_modelo") =>
          /\ (ret'.valor = None => _modelo_cache' = None)
          /\ (_modelo_cache = None /\ Aceptado(fs[filepath']))
                => /\ ret' = Retorna("cargar_modelo", json_load(fs[filepath']))
                   /\ _modelo_cache' = json_load(fs[filepath']) ]_vars

\* cargar_modelo has returned None on a file without the key, the cache is
\* still empty, and a valid model is at the other path.
C28_Testigo ==
    /\ ret.op = "cargar_modelo"
    /\ ret.valor = None
    /\ fs[filepath] = SinEquivalencias
    /\ _modelo_cache = None
    /\ \E p \in Paths \ {filepath} : fs[p] = M1

\* The step ends the game in play: the cookie loses its person.
TerminaPartida == session.current_person # <<>> /\ session'.current_person = <<>>

\* C26: when a game ends, by a correct guess or by get_answer, the stored
\* session has as many guesses as hints.
C26_GuessesComoPistas ==
    [][ (TerminaPartida /\ sesion_guardada' # <<>>)
        => Len(sesion_guardada'[1].guesses) = Len(sesion_guardada'[1].pista) ]_vars

\* What holds of the two arrays at the end of a game: the guesses are at
\* most one fewer than the hints, and more than the hints by as many wrong
\* guesses as were made with no hint left.
C26_Desfase ==
    [][ (TerminaPartida /\ sesion_guardada' # <<>>)
        => /\ Len(sesion_guardada'[1].guesses) >= Len(sesion_guardada'[1].pista) - 1
           /\ Len(sesion_guardada'[1].guesses)
                 <= Len(sesion_guardada'[1].pista) + MaxIntentos ]_vars

\* The hints of a sequence of deliveries are pairwise distinct and their
\* difficulties do not increase.
EnOrden(e) ==
    /\ \A i \in 1..Len(e) : \A j \in 1..Len(e) : i # j => e[i][1] # e[j][1]
    /\ \A k \in 1..(Len(e) - 1) : e[k][2] >= e[k + 1][2]

\* Every hint text stored for the person has been delivered in this game.
TodasEntregadas ==
    {pistas_persona[k].pista : k \in 1..Len(pistas_persona)}
        \subseteq {entregadas[k][1] : k \in 1..Len(entregadas)}

\* C29: the hints delivered in one game, by start_game, get_hint and
\* make_guess, are pairwise distinct, come in non-increasing order of
\* difficulty and are hints stored for the person; once all of them are
\* delivered, get_hint and a guess that is not correct deliver no hint and
\* leave hints_used as it was.
C29_PistasEnOrden ==
    [][ /\ EnOrden(entregadas')
        /\ \A k \in 1..Len(entregadas') :
              \E n \in 1..Len(pistas_persona) :
                 entregadas'[k] = <<pistas_persona[n].pista, dificultad(pistas_persona[n])>>
        /\ (/\ session.current_person # <<>>
            /\ TodasEntregadas
            /\ respuesta'.ruta \in {"get_hint", "make_guess"}
            /\ respuesta'.correct # <<TRUE>>)
              => /\ respuesta'.hint = <<>>
                 /\ session'.hints_used = session.hints_used ]_vars

\* The three hints of a person, stored from the easiest to the hardest, have
\* been delivered from the hardest to the easiest, and the request made
\* after the last one got no hint.
C29_Testigo ==
    /\ pistas_persona = <<[pista |-> "p3"], Pista("p2", 1), Pista("p1", 2)>>
    /\ entregadas = << <<"p1", 2>>, <<"p2", 1>>, <<"p3", 0>> >>
    /\ session.hints_used = <<"p1", "p2", "p3">>
    /\ respuesta.ruta = "get_hint"
    /\ respuesta.hint = <<>>

\* C30: the attempts_count of the response that ends a game, by a correct
\* guess or by get_answer, is the number of non-empty guesses recorded for
\* the session, and is not negative.
C30_IntentosContados ==
    [][ TerminaPartida
        => /\ respuesta'.attempts_count = <<Intentos'>>
           /\ respuesta'.attempts_count[1] >= 0 ]_vars

\* The part of C30 the code keeps: the count of a game ended by a correct
\* guess.
C30_IntentosAlAcertar ==
    [][ (TerminaPartida /\ respuesta'.ruta = "make_guess")
        => /\ respuesta'.attempts_count = <<Intentos'>>
           /\ respuesta'.attempts_count[1] >= 0 ]_vars

====
